---- MODULE Spec2Model ----
(***************************************************************************)
(* A model of the request pipeline of the Orchids gateway:                 *)
(*   - the load balancer's connection accounting and account selection     *)
(*     (internal/loadbalancer/loadbalancer.go);                            *)
(*   - Handler.HandleMessages (handler package): account selection,        *)
(*     acquire / deferred release, the SSE writer and its mutex, the       *)
(*     keep-alive goroutine, the translation of upstream events, the       *)
(*     retry / failover loop, internal tool rounds and finalization.       *)
(*                                                                         *)
(* The handler is the one built by NewWithLoadBalancer (h.client = nil,    *)
(* h.loadBalancer # nil).  One request is followed from entry to return.   *)
(***************************************************************************)
EXTENDS Integers, Sequences, FiniteSets, TLC

\* ------------------------------------------------------------------ bounds
MaxAccounts == 2      \* accounts in the catalog
MaxConns == 10        \* cap on a connection counter in the load-balancer specification
MaxEvents == 4        \* upstream events delivered to one request
MaxEventsKA == 3      \* the same, in the specification with keep-alive ticks
MaxRetriesCfg == 1    \* largest configured max_retries
MaxKeepAlives == 1    \* keep-alive ticks taken during one request
MaxEventsRetry == 2   \* upstream events, in the specification of the retry loop
MaxRetriesRetry == 2  \* largest configured max_retries there
MaxCallers == 2       \* goroutines inside GetNextAccountExcludingByChannel at once
MaxClock == 3         \* ticks of the clock the load balancer reads
CacheTTL == 2         \* lb.cacheTTL, in ticks
MaxConnsSel == 2      \* connections per account when weights vary
MaxWeight == 2        \* largest weight of an account
MaxTokens == 4        \* tokens of the command of a tool call
MaxRequests == 3      \* requests that go through the concurrency limiter
DuplicateWindow == 2  \* the dedup window, in clock ticks
MaxHolders == 2       \* originals of one fingerprint that are in flight at once
MaxMessages == 3      \* messages handed to enforceWarpBudget
MaxModels == 3        \* ids of the model catalog
MaxLimit == 2         \* largest configured concurrency limit
MaxHistory == 3       \* messages of the request the topic classifier gets
MaxLines == 4         \* lines of an upstream response body
MaxMemTTL == 1        \* largest ttl of the token-count cache, in clock ticks
MaxMemEntries == 2    \* largest maxEntries of the token-count cache
MaxCallEvents == 2    \* events one SendRequest delivers before it returns
MaxLoopRetries == 1   \* configured max_retries of the round loop
MaxMemClock == 2      \* last tick of the clock of the token-count cache

\* ------------------------------------------------------------------ inputs
AccountIDs == 1..MaxAccounts
NoAccount == 0
ToolIds == {"T1", "T2"}
\* upstream tool names: "Bash" matches the declared tool "bash" case-insensitively,
\* "nope" matches no declared tool
ToolNames == {"Bash", "nope"}
AllowedTools == {"bash"}
Deltas == {"d"}
FinishReasons == {"tool-calls", "stop"}
ToolCallModes == {"proxy", "auto", "other"}
OutputTokenModes == {"final"}
RetryDelays == {1}
UsageOutputs == {2}
TargetChannel == "orchids"
\* channels a request's model can belong to; no account of the catalog serves "warp"
Channels == {"orchids", "warp"}
\* the Retry-After header of a failed attempt, in seconds (0: no such header)
RetryAfterHeaders == {0, 1}
\* time.Second, in the unit of retry_delay (milliseconds)
Second == 1000

\* the words a tool call's command is made of; "|" stands for the pipe character
ToolTokens == {"pwd", "ls", "find", "rm", "head", "|", "-a", "-x", "-maxdepth", "1",
               "-type", "f", "-name", "-not", "-path", "*/.*", "-o"}

\* goroutines that call the load balancer, weights and agent modes of accounts,
\* channels a caller asks for
Callers == 1..MaxCallers
Weights == 0..MaxWeight
AgentModes == {"Orchids", "warp"}
SelectChannels == {"", "orchids", "warp"}

\* the enabled-accounts snapshot, in the catalog's order (weight DESC, id)
Catalog == [i \in AccountIDs |-> [id |-> i, weight |-> 1, agentMode |-> "Orchids"]]

VARIABLES
  activeConns,          \* lb.activeConns
  toolCallMode, isStream, outputTokenMode, maxRetries, retryDelay,
  pc, ctxCancelled, retriesRemaining, currentAccount, deferredRelease,
  failedAccountIDs, httpStatus,
  mu, outq, wire, hasReturn, kaState, keepAliveStop,
  blockIndex, toolBlocks, toolInputNames, toolInputBuffers, toolInputHadDelta,
  toolCallHandled, currentToolInputID, toolCallCount, pendingToolCalls,
  finalStopReason, contentBlocks, currentTextIndex, textBlockBuilders,
  responseText, outputTokens, outputBuilder, useUpstreamUsage,
  internalToolResults, internalNeedsFollowup, chatHistory, upstreamMessages,
  nEvents, attempts, finishCalls, selectLog, releaseLog, acquireLog,
  seenToolIds, upstreamFinish, roundFinish, kaCount, evLimit, kaLimit,
  upBlock, upOpen, upOpened, upCalled,
  channel,              \* targetChannel of the request's model
  retryAfters,          \* the Retry-After headers the upstream may answer with
  clock,                \* time, in milliseconds
  notBefore,            \* failure time + Retry-After of the last failed attempt
  roundAttempts,        \* SendRequest calls of the current round
  selectErr,            \* the error of the last selectAccount, "" for none
  store,                \* the accounts table: id -> enabled, weight, agent_mode
  cachedAccounts,       \* lb.cachedAccounts
  cacheExpires,         \* lb.cacheExpires
  cacheFetch,           \* when, and from which enabled accounts, cachedAccounts
                        \* was read
  sel,                  \* per goroutine: the locals of one call of
                        \* GetNextAccountExcludingByChannel and what it returned
  selInputs,            \* the arguments and store outcomes the calls draw from
  clockLimit,           \* the last tick of the clock
  toolCommand,          \* the command of a tool call, as its tokens
  toolResult,           \* the safeToolResult of executeSafeTool, once it ran
  maxConcurrent,        \* cl.maxConcurrent, the size of the semaphore
  semCur,               \* slots of cl.sem that are taken
  activeCount, totalReqs, rejectedReqs,
  recentRequests,       \* h.recentRequests: fingerprint -> (last, inFlight)
  dedupNow,             \* the clock the deduplicator reads
  dedupHolders,         \* per fingerprint: registered originals not yet finished
  dedupRet,             \* the last operation of the deduplicator and its result
  tokenCacheItems,      \* tokenCache.items: session id -> (token, expiresAt)
  tokenNow,             \* time.Now() of the token cache, in seconds
  tokenCall,            \* per goroutine: where it is inside GetToken
  warpIn,               \* the arguments of enforceWarpBudget
  warpOut,              \* what enforceWarpBudget returned
  storeMode,            \* "redis" (s.models is set) or "sqlite" (s.db)
  models,               \* the models of the catalog, by id
  modelOp,              \* the CreateModel or UpdateModel call that is in progress
  clearFailed,          \* a call that had to clear the other defaults failed
  topicIn,              \* req.Messages of the request classifyTopicRequest gets
  topicOut,             \* what classifyTopicRequest returned
  sseStream,            \* the lines of the upstream response body, in order
  sseTerminated,        \* the last line of the body ends in a line feed
  ssePos,               \* the line ReadString returns next
  sseBuffer,            \* buffer: the lines read since the last blank line
  sseDelivered,         \* the lines onMessage was called for, in call order
  sseRet,               \* what SendRequest returned, "" while it runs
  memTTL, memMaxEntries,\* c.ttl and c.maxEntries of the token-count cache
  memItems,             \* c.items: key -> (tokens, expiresAt, size)
  memSizeBytes,         \* c.sizeBytes
  memNow,               \* time.Now() of the token-count cache
  memGet,               \* the Get call that is in progress
  memPut,               \* the Put call that is in progress, and what the last did
  loopMode,             \* toolCallMode of the request whose round loop runs
  loopMaxRetries,       \* h.config.MaxRetries
  loopPc,               \* where the goroutine of the round loop is
  loopRetriesRemaining, \* retriesRemaining
  loopResults,          \* len(internalToolResults)
  loopNeedsFollowup,    \* internalNeedsFollowup
  loopHasReturn,        \* hasReturn
  loopCtxErr,           \* r.Context().Err() != nil
  loopEvents,           \* events the current SendRequest has delivered
  req                   \* per request: where it is inside Limit, what it was
                        \* answered, how often its handler and its release ran

cfgVars == <<toolCallMode, isStream, outputTokenMode, maxRetries, retryDelay,
             evLimit, kaLimit, channel, retryAfters>>
retryVars == <<clock, notBefore, roundAttempts, selectErr>>
execVars == <<toolCommand, toolResult>>
limVars == <<maxConcurrent, semCur, activeCount, totalReqs, rejectedReqs, req>>
dedupVars == <<recentRequests, dedupNow, dedupHolders, dedupRet>>
jwtVars == <<tokenCacheItems, tokenNow, tokenCall>>
warpVars == <<warpIn, warpOut>>
modelVars == <<storeMode, models, modelOp, clearFailed>>
topicVars == <<topicIn, topicOut>>
sseVars == <<sseStream, sseTerminated, ssePos, sseBuffer, sseDelivered, sseRet>>
memVars == <<memTTL, memMaxEntries, memItems, memSizeBytes, memNow, memGet, memPut>>
loopVars == <<loopMode, loopMaxRetries, loopPc, loopRetriesRemaining, loopResults,
              loopNeedsFollowup, loopHasReturn, loopCtxErr, loopEvents>>
extVars == <<topicVars, sseVars, memVars, loopVars>>
auxVars == <<limVars, dedupVars, jwtVars, warpVars, modelVars, extVars>>
lbcVars == <<store, cachedAccounts, cacheExpires, cacheFetch, sel, selInputs,
             clockLimit>>
acctVars == <<currentAccount, deferredRelease, failedAccountIDs, selectLog,
              releaseLog, acquireLog>>
ctlVars == <<pc, ctxCancelled, retriesRemaining, httpStatus, attempts>>
\* the upstream's side of the current SendRequest: the text or reasoning block it
\* has open, the tool ids whose input it has open, and the tool ids it has used
upVars == <<upBlock, upOpen, upOpened, upCalled>>
\* upstreamFinish: the finishReason of the model.finish event that finalized, if any;
\* roundFinish: the finishReason of the last model.finish event of the round
obsVars == <<nEvents, upstreamFinish, roundFinish, upVars>>
kaVars == <<kaState, keepAliveStop, kaCount>>
toolVars == <<toolBlocks, toolInputNames, toolInputBuffers, toolInputHadDelta,
              toolCallHandled, currentToolInputID, seenToolIds>>
textVars == <<currentTextIndex, textBlockBuilders, responseText>>
tokVars == <<outputTokens, outputBuilder, useUpstreamUsage>>
intVars == <<internalToolResults, internalNeedsFollowup, chatHistory, upstreamMessages>>
\* what finishResponse may change
finVars == <<hasReturn, finalStopReason, pendingToolCalls, blockIndex, outq,
             contentBlocks, toolCallCount, finishCalls>>
handlerVars == <<cfgVars, lbcVars, execVars, auxVars, retryVars, acctVars, ctlVars, kaVars,
                 toolVars, textVars, tokVars,
                 intVars, finVars, mu, wire, obsVars>>
vars == <<activeConns, handlerVars>>

\* ---------------------------------------------------------- load balancer
EmptyMap == [x \in {} |-> ""]
MapPut(m, k, v) == [x \in (DOMAIN m) \cup {k} |-> IF x = k THEN v ELSE m[x]]
MapDel(m, k) == [x \in (DOMAIN m) \ {k} |-> m[x]]

\* strings.ToLower on the names the model uses
ToLower(s) ==
  CASE s = "Bash" -> "bash"
    [] s = "Orchids" -> "orchids"
    [] OTHER -> s

\* strings.EqualFold
EqualFold(a, b) == ToLower(a) = ToLower(b)

\* lb.activeConns[accountID]++
AcquireConnection(conns, accountID) ==
  [conns EXCEPT ![accountID] = @ + 1]

ReleaseConnectionNoGuard(conns, accountID) ==
  [conns EXCEPT ![accountID] = @ - 1]

\* if lb.activeConns[accountID] > 0 { lb.activeConns[accountID]-- }
ReleaseConnection(conns, accountID) ==
  IF conns[accountID] > 0
    THEN [conns EXCEPT ![accountID] = @ - 1]
    ELSE conns

\* the loop of selectAccount: the first account of minimal conns/weight
\* (score < minScore compared as a cross product, weights being positive)
RECURSIVE SelectLoop(_, _, _, _)
SelectLoop(accounts, conns, i, best) ==
  IF i > Len(accounts) THEN best
  ELSE
    LET W(a) == IF a.weight <= 0 THEN 1 ELSE a.weight
        acc == accounts[i]
        better == \/ best = NoAccount
                  \/ LET b == CHOOSE a \in {accounts[j] : j \in 1..Len(accounts)} :
                                a.id = best
                     IN conns[acc.id] * W(b) < conns[b.id] * W(acc)
    IN SelectLoop(accounts, conns, i + 1, IF better THEN acc.id ELSE best)

selectAccountFirst(accounts, conns) == accounts[1].id

selectAccountLB(accounts, conns) ==
  IF Len(accounts) = 1 THEN accounts[1].id
  ELSE SelectLoop(accounts, conns, 1, NoAccount)

\* the filter of GetNextAccountExcludingByChannel
FilterAccountsNoExclude(accounts, excludeIDs, ch) ==
  SelectSeq(accounts, LAMBDA acc : ch = "" \/ EqualFold(acc.agentMode, ch))

FilterAccountsCaseSensitive(accounts, excludeIDs, ch) ==
  SelectSeq(accounts,
            LAMBDA acc : /\ acc.id \notin excludeIDs
                         /\ (ch = "" \/ acc.agentMode = ch))

FilterAccountsNoChannel(accounts, excludeIDs, ch) ==
  SelectSeq(accounts, LAMBDA acc : acc.id \notin excludeIDs)

FilterAccounts(accounts, excludeIDs, ch) ==
  SelectSeq(accounts,
            LAMBDA acc : /\ acc.id \notin excludeIDs
                         /\ (ch = "" \/ EqualFold(acc.agentMode, ch)))

\* GetNextAccountExcludingByChannel: the chosen id, or NoAccount for an error
\* (no account left, or IncrementRequestCount failed)
SelectIn(accounts, conns, excludeIDs, ch, storeOk) ==
  LET filtered == FilterAccounts(accounts, excludeIDs, ch)
  IN IF Len(filtered) = 0 THEN NoAccount
     ELSE IF ~storeOk THEN NoAccount
     ELSE selectAccountLB(filtered, conns)

GetNextAccountExcludingByChannel(conns, excludeIDs, ch, storeOk) ==
  SelectIn(Catalog, conns, excludeIDs, ch, storeOk)

\* the error GetNextAccountExcludingByChannel returns with a nil account: "no
\* enabled accounts available for channel" or the error of IncrementRequestCount
SelectErrorIn(accounts, excludeIDs, ch, storeOk) ==
  IF Len(FilterAccounts(accounts, excludeIDs, ch)) = 0 THEN "no accounts"
  ELSE IF ~storeOk THEN "increment"
  ELSE ""

GetNextAccountError(excludeIDs, ch, storeOk) ==
  SelectErrorIn(Catalog, excludeIDs, ch, storeOk)

\* parseRetryAfterHeader on a delta-seconds value
parseRetryAfterHeader(seconds) ==
  IF seconds > 0 THEN seconds * Second ELSE 0

SeqToSet(s) == {s[i] : i \in 1..Len(s)}

\* ------------------------------------------------------- frames and tokens
Frame(ev, index, btype, id) ==
  [ev |-> ev, index |-> index, btype |-> btype, id |-> id, stop |-> "", out |-> 0]

\* message_start carries "output_tokens": 0
MessageStart == Frame("message_start", -1, "", "")
MessageDelta(stopReason, out) ==
  [ev |-> "message_delta", index |-> -1, btype |-> "", id |-> "",
   stop |-> stopReason, out |-> out]
MessageStop == Frame("message_stop", -1, "", "")
KeepAlive == Frame("keepalive", -1, "", "")

\* writeSSE / writeFinalSSE write nothing unless isStream; an entry of outq is a
\* frame the handler goroutine has handed to writeSSE (final = FALSE) or to
\* writeFinalSSE (final = TRUE) and not yet written
Q(final, frames) ==
  IF isStream THEN [i \in 1..Len(frames) |-> [final |-> final, f |-> frames[i]]]
  ELSE <<>>

\* tiktoken.EstimateTextTokens on the texts of the model: an empty text is 0
\* tokens, a name or a delta is 1 token, a buffer is 1 token per delta
EstimateTextTokens(text) == IF text = "" THEN 0 ELSE 1
EstimateInputTokens(input) == Len(input)

Tok == [out |-> outputTokens, buf |-> outputBuilder, up |-> useUpstreamUsage]

\* addOutputTokens with the text's token estimate n (n = 0 for the empty text)
AddOutputTokens(tk, n) ==
  IF n = 0 THEN tk
  ELSE IF tk.up THEN tk
  ELSE IF outputTokenMode = "stream" THEN [tk EXCEPT !.out = @ + n]
  ELSE [tk EXCEPT !.buf = @ + n]

finalizeOutputTokens(tk) ==
  IF outputTokenMode = "stream" THEN tk
  ELSE IF tk.up THEN tk
  ELSE [tk EXCEPT !.out = tk.buf]

\* setUsageTokens(input, output) with output >= 0 (input tokens are not modelled)
setUsageTokens(tk, output) ==
  [tk EXCEPT !.out = IF output >= 0 THEN output ELSE @, !.up = TRUE]

SetTok(tk) ==
  /\ outputTokens' = tk.out
  /\ outputBuilder' = tk.buf
  /\ useUpstreamUsage' = tk.up

\* -------------------------------------------------------------- tool names
\* mapOrchidsToolName: a name that matches a declared tool case-insensitively is
\* mapped to it, any other name is returned as it is
mapOrchidsToolName(name) ==
  IF ToLower(name) \in AllowedTools THEN ToLower(name) ELSE name

\* resolveToolName: [ok, name]
resolveToolName(name) ==
  IF name = "" THEN [ok |-> FALSE, name |-> ""]
  ELSE IF AllowedTools = {} THEN [ok |-> TRUE, name |-> name]
  ELSE IF ToLower(name) \in AllowedTools THEN [ok |-> TRUE, name |-> ToLower(name)]
  ELSE [ok |-> FALSE, name |-> ""]

shouldEmitToolCalls(stopReason) ==
  CASE toolCallMode = "proxy" -> TRUE
    [] toolCallMode = "auto" -> stopReason = "tool_use"
    [] toolCallMode = "internal" -> FALSE
    [] OTHER -> TRUE

\* --------------------------------------------------------------- emitters
\* emitToolCallNonStream: [cbs, tk]
emitToolCallNonStream(call, cbs, tk) ==
  [cbs |-> Append(cbs, [type |-> "tool_use", id |-> call.id, text |-> 0]),
   tk |-> AddOutputTokens(AddOutputTokens(tk, EstimateTextTokens(call.name)),
                          EstimateInputTokens(call.input))]

\* emitToolCallStream(call, idx, write): [frames, bi, tk]; idx < 0 takes the next
\* block index
emitToolCallStream(call, idx, bi, tk) ==
  IF call.id = "" THEN [frames |-> <<>>, bi |-> bi, tk |-> tk]
  ELSE
    LET i == IF idx < 0 THEN bi + 1 ELSE idx
    IN [frames |-> << Frame("content_block_start", i, "tool_use", call.id),
                      Frame("content_block_delta", i, "input_json_delta", call.id),
                      Frame("content_block_stop", i, "", "") >>,
        bi |-> IF idx < 0 THEN bi + 1 ELSE bi,
        tk |-> AddOutputTokens(AddOutputTokens(tk, EstimateTextTokens(call.name)),
                               EstimateInputTokens(call.input))]

\* the loop of flushPendingToolCalls over the copied calls: [frames, bi, tk, cbs]
RECURSIVE FlushLoop(_, _)
FlushLoop(calls, acc) ==
  IF calls = <<>> THEN acc
  ELSE
    LET call == Head(calls)
    IN IF isStream
         THEN LET e == emitToolCallStream(call, -1, acc.bi, acc.tk)
              IN FlushLoop(Tail(calls),
                           [acc EXCEPT !.frames = @ \o e.frames, !.bi = e.bi, !.tk = e.tk])
         ELSE LET e == emitToolCallNonStream(call, acc.cbs, acc.tk)
              IN FlushLoop(Tail(calls), [acc EXCEPT !.cbs = e.cbs, !.tk = e.tk])

\* flushPendingToolCalls: [frames, bi, tk, cbs, pending]
flushPendingToolCalls(stopReason, tk) ==
  LET acc0 == [frames |-> <<>>, bi |-> blockIndex, tk |-> tk, cbs |-> contentBlocks]
  IN IF ~shouldEmitToolCalls(stopReason)
       THEN [frames |-> <<>>, bi |-> blockIndex, tk |-> tk, cbs |-> contentBlocks,
             pending |-> pendingToolCalls]
       ELSE LET r == FlushLoop(pendingToolCalls, acc0)
            IN [frames |-> r.frames, bi |-> r.bi, tk |-> r.tk, cbs |-> r.cbs,
                pending |-> <<>>]

\* the stop reason finishResponse reports: tool_use without any tool call is end_turn
NoDowngrade(stopReason) == stopReason

DowngradeStopReason(stopReason) ==
  IF stopReason = "tool_use" /\ ~(toolCallCount > 0 \/ Len(pendingToolCalls) > 0)
    THEN "end_turn"
    ELSE stopReason

\* finishResponse(stopReason), called with the token tallies tk of the caller;
\* sets finVars and the token tallies.  overrideWithLocalContext does nothing
\* here: shouldLocalFallback is false without preflight results.
finishResponse(stopReason, tk) ==
  LET sr == DowngradeStopReason(stopReason)
      fl == flushPendingToolCalls(sr, tk)
      tkf == finalizeOutputTokens(fl.tk)
  IN /\ finishCalls' = finishCalls + 1
     /\ UNCHANGED toolCallCount
     /\ IF hasReturn
          THEN /\ UNCHANGED <<hasReturn, finalStopReason, pendingToolCalls, blockIndex,
                              outq, contentBlocks>>
               /\ SetTok(tk)
          ELSE /\ hasReturn' = TRUE
               /\ finalStopReason' = sr
               /\ pendingToolCalls' = fl.pending
               /\ blockIndex' = fl.bi
               /\ contentBlocks' = fl.cbs
               /\ SetTok(tkf)
               /\ outq' = Q(TRUE, fl.frames \o << MessageDelta(sr, tkf.out), MessageStop >>)

\* ---------------------------------------------------------- handleToolCall
\* the state handleToolCall works on
CallState ==
  [tk |-> Tok, cbs |-> contentBlocks, tb |-> toolBlocks, bi |-> blockIndex,
   count |-> toolCallCount, pending |-> pendingToolCalls,
   results |-> internalToolResults, frames |-> <<>>]

\* handleToolCall(call) from the state st; the result of executeSafeTool and of
\* executeToolCall is recorded by the call it answers
handleToolCall(call, st) ==
  IF call.id = "" THEN st
  ELSE IF toolCallMode = "internal"
    THEN [st EXCEPT !.results = Append(@, call)]
  ELSE IF toolCallMode = "auto"
    THEN LET e == emitToolCallNonStream(call, st.cbs, st.tk)
             s1 == IF ~isStream THEN [st EXCEPT !.cbs = e.cbs, !.tk = e.tk] ELSE st
         IN [s1 EXCEPT !.results = Append(@, call)]
  ELSE
    LET s1 == [st EXCEPT !.count = @ + 1]
    IN IF toolCallMode # "proxy"
         THEN [s1 EXCEPT !.pending = Append(@, call)]
       ELSE IF ~isStream
         THEN LET e == emitToolCallNonStream(call, s1.cbs, s1.tk)
              IN [s1 EXCEPT !.cbs = e.cbs, !.tk = e.tk]
       ELSE
         LET exists == call.id \in DOMAIN s1.tb
             idx == IF exists THEN s1.tb[call.id] ELSE -1
             e == emitToolCallStream(call, idx, s1.bi, s1.tk)
         IN [s1 EXCEPT !.tb = IF exists THEN MapDel(@, call.id) ELSE @,
                       !.bi = e.bi, !.tk = e.tk, !.frames = @ \o e.frames]

SetCallState(st) ==
  /\ SetTok(st.tk)
  /\ contentBlocks' = st.cbs
  /\ toolBlocks' = st.tb
  /\ blockIndex' = st.bi
  /\ toolCallCount' = st.count
  /\ pendingToolCalls' = st.pending
  /\ internalToolResults' = st.results
  /\ outq' = Q(FALSE, st.frames)

\* ------------------------------------------------------------ the writers
\* writeSSE / writeFinalSSE, first half: lock mu; writeSSE gives up when hasReturn;
\* otherwise the frame's bytes start to go out (Fprintf)
WriteBeginNoLock ==
  /\ outq # <<>>
  /\ mu # "ev"
  /\ LET e == Head(outq)
     IN IF e.final \/ ~hasReturn
          THEN /\ wire' = Append(wire, [part |-> "head", f |-> e.f])
               /\ mu' = "ev"
               /\ UNCHANGED outq
          ELSE /\ outq' = Tail(outq)
               /\ UNCHANGED <<wire, mu>>
  /\ UNCHANGED <<activeConns, cfgVars, lbcVars, execVars, auxVars, retryVars, acctVars,
                 ctlVars, kaVars, toolVars, textVars,
                 tokVars, intVars, hasReturn, finalStopReason, pendingToolCalls,
                 blockIndex, contentBlocks, toolCallCount, finishCalls, obsVars>>

WriteBegin ==
  /\ outq # <<>>
  /\ mu = "free"
  /\ LET e == Head(outq)
     IN IF e.final \/ ~hasReturn
          THEN /\ wire' = Append(wire, [part |-> "head", f |-> e.f])
               /\ mu' = "ev"
               /\ UNCHANGED outq
          ELSE /\ outq' = Tail(outq)
               /\ UNCHANGED <<wire, mu>>
  /\ UNCHANGED <<activeConns, cfgVars, lbcVars, execVars, auxVars, retryVars, acctVars,
                 ctlVars, kaVars, toolVars, textVars,
                 tokVars, intVars, hasReturn, finalStopReason, pendingToolCalls,
                 blockIndex, contentBlocks, toolCallCount, finishCalls, obsVars>>

\* second half: the rest of the frame and Flush, then unlock
WriteEnd ==
  /\ mu = "ev"
  /\ wire' = Append(wire, [part |-> "tail", f |-> Head(outq).f])
  /\ outq' = Tail(outq)
  /\ mu' = "free"
  /\ UNCHANGED <<activeConns, cfgVars, lbcVars, execVars, auxVars, retryVars, acctVars,
                 ctlVars, kaVars, toolVars, textVars,
                 tokVars, intVars, hasReturn, finalStopReason, pendingToolCalls,
                 blockIndex, contentBlocks, toolCallCount, finishCalls, obsVars>>

\* the keep-alive goroutine: a tick of the ticker runs writeKeepAlive, which
\* locks mu and writes nothing when hasReturn
KeepAliveTickAlways ==
  /\ kaState = "idle"
  /\ kaCount < kaLimit
  /\ mu = "free"
  /\ kaCount' = kaCount + 1
  /\ wire' = Append(wire, [part |-> "head", f |-> KeepAlive])
  /\ mu' = "ka"
  /\ kaState' = "writing"
  /\ UNCHANGED <<activeConns, cfgVars, lbcVars, execVars, auxVars, retryVars, acctVars,
                 ctlVars, keepAliveStop, toolVars,
                 textVars, tokVars, intVars, finVars, obsVars>>

KeepAliveTick ==
  /\ kaState = "idle"
  /\ kaCount < kaLimit
  /\ mu = "free"
  /\ kaCount' = kaCount + 1
  /\ IF hasReturn
       THEN UNCHANGED <<wire, mu, kaState>>
       ELSE /\ wire' = Append(wire, [part |-> "head", f |-> KeepAlive])
            /\ mu' = "ka"
            /\ kaState' = "writing"
  /\ UNCHANGED <<activeConns, cfgVars, lbcVars, execVars, auxVars, retryVars, acctVars,
                 ctlVars, keepAliveStop, toolVars,
                 textVars, tokVars, intVars, finVars, obsVars>>

KeepAliveEnd ==
  /\ kaState = "writing"
  /\ wire' = Append(wire, [part |-> "tail", f |-> KeepAlive])
  /\ mu' = "free"
  /\ kaState' = "idle"
  /\ UNCHANGED <<activeConns, cfgVars, lbcVars, execVars, auxVars, retryVars, acctVars,
                 ctlVars, keepAliveStop, kaCount,
                 toolVars, textVars, tokVars, intVars, finVars, obsVars>>

\* case <-keepAliveStop: return
KeepAliveExit ==
  /\ kaState = "idle"
  /\ keepAliveStop
  /\ kaState' = "exited"
  /\ UNCHANGED <<activeConns, cfgVars, lbcVars, execVars, auxVars, retryVars, acctVars,
                 ctlVars, keepAliveStop, kaCount,
                 toolVars, textVars, tokVars, intVars, finVars, mu, wire, obsVars>>

\* ------------------------------------------------------------ handleMessage
\* SendRequest calls handleMessage for the next upstream event, once the handler
\* goroutine has finished the writes of the previous one
\* The upstream's stream is well formed: a delta or an end of a text or reasoning
\* block comes inside that block, the input of a tool id is opened once and its
\* deltas and end come while it is open, and a tool id is the subject of one
\* tool-call event.  Events after model.finish are delivered all the same.
EvGuard ==
  /\ pc = "send"
  /\ outq = <<>>
  /\ ~ctxCancelled
  /\ nEvents < evLimit

\* the handler only compares tool ids: the first id the upstream uses is T1
IdsInPlay == IF "T1" \in upOpened \cup upCalled THEN ToolIds ELSE {"T1"}

EvFrame == <<activeConns, cfgVars, lbcVars, execVars, auxVars, retryVars, acctVars, ctlVars, kaVars, mu, wire>>

\* if hasReturn { return }
OnEventAfterReturn ==
  /\ EvGuard
  /\ hasReturn
  /\ nEvents' = nEvents + 1
  /\ UNCHANGED <<upstreamFinish, roundFinish, upVars>>
  /\ UNCHANGED <<EvFrame, toolVars, textVars, tokVars, intVars, finVars>>

\* model.reasoning-start and model.text-start
BlockStart(btype) ==
  /\ EvGuard
  /\ ~hasReturn
  /\ upBlock = "none"
  /\ upBlock' = btype
  /\ nEvents' = nEvents + 1
  /\ UNCHANGED <<upstreamFinish, roundFinish, upOpen, upOpened, upCalled>>
  /\ blockIndex' = blockIndex + 1
  /\ outq' = Q(FALSE, << Frame("content_block_start", blockIndex + 1, btype, "") >>)
  /\ IF btype = "text" /\ ~isStream
       THEN /\ contentBlocks' = Append(contentBlocks, [type |-> "text", id |-> "", text |-> 0])
            /\ currentTextIndex' = Len(contentBlocks)
            /\ textBlockBuilders' = MapPut(textBlockBuilders, Len(contentBlocks), 0)
       ELSE UNCHANGED <<contentBlocks, currentTextIndex, textBlockBuilders>>
  /\ UNCHANGED <<EvFrame, toolVars, responseText, tokVars, intVars, hasReturn,
                 finalStopReason, pendingToolCalls, toolCallCount, finishCalls>>

OnReasoningStart == BlockStart("thinking")
OnTextStart == BlockStart("text")

\* model.reasoning-delta and model.text-delta
BlockDelta(btype, dtype, delta) ==
  /\ EvGuard
  /\ ~hasReturn
  /\ upBlock = btype
  /\ nEvents' = nEvents + 1
  /\ UNCHANGED <<upstreamFinish, roundFinish, upVars>>
  /\ SetTok(IF dtype = "text_delta" \/ isStream
              THEN AddOutputTokens(Tok, EstimateTextTokens(delta))
              ELSE Tok)
  /\ IF dtype = "text_delta" /\ ~isStream
       THEN /\ responseText' = responseText + EstimateTextTokens(delta)
            /\ textBlockBuilders' =
                 IF currentTextIndex >= 0 /\ currentTextIndex < Len(contentBlocks)
                   THEN MapPut(textBlockBuilders, currentTextIndex,
                               (IF currentTextIndex \in DOMAIN textBlockBuilders
                                  THEN textBlockBuilders[currentTextIndex] ELSE 0)
                               + EstimateTextTokens(delta))
                   ELSE textBlockBuilders
       ELSE UNCHANGED <<responseText, textBlockBuilders>>
  /\ outq' = Q(FALSE, << Frame("content_block_delta", blockIndex, dtype, "") >>)
  /\ UNCHANGED <<EvFrame, toolVars, currentTextIndex, intVars, hasReturn,
                 finalStopReason, pendingToolCalls, blockIndex, contentBlocks,
                 toolCallCount, finishCalls>>

OnReasoningDelta == \E delta \in Deltas : BlockDelta("thinking", "thinking_delta", delta)
OnTextDelta == \E delta \in Deltas : BlockDelta("text", "text_delta", delta)

\* model.reasoning-end and model.text-end
BlockEnd(btype) ==
  /\ EvGuard
  /\ ~hasReturn
  /\ upBlock = btype
  /\ upBlock' = "none"
  /\ nEvents' = nEvents + 1
  /\ UNCHANGED <<upstreamFinish, roundFinish, upOpen, upOpened, upCalled>>
  /\ outq' = Q(FALSE, << Frame("content_block_stop", blockIndex, "", "") >>)
  /\ UNCHANGED <<EvFrame, toolVars, textVars, tokVars, intVars, hasReturn,
                 finalStopReason, pendingToolCalls, blockIndex, contentBlocks,
                 toolCallCount, finishCalls>>

OnReasoningEnd == BlockEnd("thinking")
OnTextEnd == BlockEnd("text")

EmitsToolFrames == isStream /\ toolCallMode \in {"proxy", "auto"}

\* model.tool-input-start
OnToolInputStart ==
  \E toolID \in IdsInPlay, toolName \in ToolNames :
    LET r == resolveToolName(mapOrchidsToolName(toolName))
        emit == EmitsToolFrames /\ r.ok
    IN /\ EvGuard
       /\ ~hasReturn
       /\ toolID \notin upOpened
       /\ upOpened' = upOpened \cup {toolID}
       /\ upOpen' = upOpen \cup {toolID}
       /\ nEvents' = nEvents + 1
       /\ UNCHANGED <<upstreamFinish, roundFinish, upBlock, upCalled>>
       /\ currentToolInputID' = toolID
       /\ toolInputNames' = MapPut(toolInputNames, toolID, toolName)
       /\ toolInputBuffers' = MapPut(toolInputBuffers, toolID, <<>>)
       /\ toolInputHadDelta' = MapPut(toolInputHadDelta, toolID, FALSE)
       /\ seenToolIds' = IF r.ok THEN seenToolIds \cup {toolID} ELSE seenToolIds
       /\ IF emit
            THEN /\ SetTok(AddOutputTokens(Tok, EstimateTextTokens(r.name)))
                 /\ blockIndex' = blockIndex + 1
                 /\ toolBlocks' = MapPut(toolBlocks, toolID, blockIndex + 1)
                 /\ toolCallCount' = toolCallCount + 1
                 /\ outq' = Q(FALSE, << Frame("content_block_start", blockIndex + 1,
                                              "tool_use", toolID) >>)
            ELSE UNCHANGED <<tokVars, blockIndex, toolBlocks, toolCallCount, outq>>
       /\ UNCHANGED <<EvFrame, toolCallHandled, textVars, intVars, hasReturn,
                      finalStopReason, pendingToolCalls, contentBlocks, finishCalls>>

\* model.tool-input-delta
OnToolInputDelta ==
  \E toolID \in IdsInPlay, delta \in Deltas :
    /\ EvGuard
    /\ ~hasReturn
    /\ toolID \in upOpen
    /\ nEvents' = nEvents + 1
    /\ UNCHANGED <<upstreamFinish, roundFinish, upVars>>
    /\ toolInputBuffers' =
         IF toolID \in DOMAIN toolInputBuffers
           THEN [toolInputBuffers EXCEPT ![toolID] = Append(@, delta)]
           ELSE toolInputBuffers
    /\ toolInputHadDelta' =
         IF delta # "" THEN MapPut(toolInputHadDelta, toolID, TRUE) ELSE toolInputHadDelta
    /\ outq' = IF EmitsToolFrames /\ delta # "" /\ toolID \in DOMAIN toolBlocks
                 THEN Q(FALSE, << Frame("content_block_delta", toolBlocks[toolID],
                                        "input_json_delta", toolID) >>)
                 ELSE <<>>
    /\ UNCHANGED <<EvFrame, toolBlocks, toolInputNames, toolCallHandled,
                   currentToolInputID, seenToolIds, textVars, tokVars, intVars,
                   hasReturn, finalStopReason, pendingToolCalls, blockIndex,
                   contentBlocks, toolCallCount, finishCalls>>

\* model.tool-input-end
OnToolInputEnd ==
  \E toolID \in IdsInPlay :
    LET known == toolID \in DOMAIN toolInputNames /\ toolInputNames[toolID] # ""
        inputStr == IF toolID \in DOMAIN toolInputBuffers
                      THEN toolInputBuffers[toolID] ELSE <<>>
        hadDelta == toolID \in DOMAIN toolInputHadDelta /\ toolInputHadDelta[toolID]
        hasBlock == EmitsToolFrames /\ toolID \in DOMAIN toolBlocks
        tk1 == IF EmitsToolFrames
                 THEN AddOutputTokens(Tok, EstimateInputTokens(inputStr)) ELSE Tok
        frames1 ==
          IF hasBlock
            THEN (IF ~hadDelta /\ inputStr # <<>>
                    THEN << Frame("content_block_delta", toolBlocks[toolID],
                                  "input_json_delta", toolID) >>
                    ELSE <<>>)
                 \o << Frame("content_block_stop", toolBlocks[toolID], "", "") >>
            ELSE <<>>
        tb1 == IF hasBlock THEN MapDel(toolBlocks, toolID) ELSE toolBlocks
        r == resolveToolName(mapOrchidsToolName(toolInputNames[toolID]))
        call == [id |-> toolID, name |-> r.name, input |-> inputStr]
        st0 == [CallState EXCEPT !.tk = tk1, !.tb = tb1, !.frames = frames1]
    IN /\ EvGuard
       /\ ~hasReturn
       /\ toolID \in upOpen
       /\ upOpen' = upOpen \ {toolID}
       /\ nEvents' = nEvents + 1
       /\ UNCHANGED <<upstreamFinish, roundFinish, upBlock, upOpened, upCalled>>
       /\ currentToolInputID' =
            IF currentToolInputID = toolID THEN "" ELSE currentToolInputID
       /\ toolInputBuffers' = MapDel(toolInputBuffers, toolID)
       /\ toolInputHadDelta' = MapDel(toolInputHadDelta, toolID)
       /\ toolInputNames' = MapDel(toolInputNames, toolID)
       /\ UNCHANGED seenToolIds
       /\ IF ~known
            THEN UNCHANGED <<toolCallHandled, tokVars, contentBlocks, toolBlocks,
                             blockIndex, toolCallCount, pendingToolCalls,
                             internalToolResults, outq>>
          ELSE IF toolID \in toolCallHandled \/ ~r.ok
            THEN /\ SetCallState(st0)
                 /\ UNCHANGED toolCallHandled
          ELSE /\ toolCallHandled' = toolCallHandled \cup {toolID}
               /\ IF toolCallMode = "proxy" /\ isStream
                    THEN SetCallState(st0)
                    ELSE SetCallState(handleToolCall(call, st0))
       /\ UNCHANGED <<EvFrame, textVars, internalNeedsFollowup, chatHistory,
                      upstreamMessages, hasReturn, finalStopReason, finishCalls>>

\* model.tool-call
OnToolCall ==
  \E toolID \in IdsInPlay, toolName \in ToolNames :
    LET r == resolveToolName(mapOrchidsToolName(toolName))
        call == [id |-> toolID, name |-> r.name, input |-> <<"i">>]
        suppressed == \/ (currentToolInputID # "" /\ toolID # currentToolInputID)
                      \/ toolID \in toolCallHandled
                      \/ toolID \in DOMAIN toolInputBuffers
    IN /\ EvGuard
       /\ ~hasReturn
       /\ toolID \notin upCalled
       /\ upCalled' = upCalled \cup {toolID}
       /\ nEvents' = nEvents + 1
       /\ UNCHANGED <<upstreamFinish, roundFinish, upBlock, upOpen, upOpened>>
       /\ seenToolIds' = IF r.ok THEN seenToolIds \cup {toolID} ELSE seenToolIds
       /\ IF suppressed \/ ~r.ok
            THEN UNCHANGED <<toolCallHandled, tokVars, contentBlocks, toolBlocks,
                             blockIndex, toolCallCount, pendingToolCalls,
                             internalToolResults, outq>>
            ELSE /\ toolCallHandled' = toolCallHandled \cup {toolID}
                 /\ SetCallState(handleToolCall(call, CallState))
       /\ UNCHANGED <<EvFrame, toolInputNames, toolInputBuffers, toolInputHadDelta,
                      currentToolInputID, textVars, internalNeedsFollowup, chatHistory,
                      upstreamMessages, hasReturn, finalStopReason, finishCalls>>

\* model.tokens-used with an outputTokens field
OnTokensUsed ==
  /\ EvGuard
  /\ ~hasReturn
  /\ nEvents' = nEvents + 1
  /\ UNCHANGED <<upstreamFinish, roundFinish, upVars>>
  /\ (\E output \in UsageOutputs : SetTok(setUsageTokens(Tok, output)))
  /\ UNCHANGED <<EvFrame, toolVars, textVars, intVars, finVars>>

\* the stop reason model.finish takes from finishReason
StopReasonOf(finishReason) ==
  CASE finishReason = "tool-calls" -> "tool_use"
    [] finishReason \in {"stop", "end_turn"} -> "end_turn"
    [] OTHER -> "end_turn"

\* model.finish (without a usage field)
OnFinish ==
  \E finishReason \in FinishReasons :
    LET stopReason == StopReasonOf(finishReason)
    IN /\ EvGuard
       /\ ~hasReturn
       /\ nEvents' = nEvents + 1
       /\ upstreamFinish' = IF stopReason = "tool_use" /\ toolCallMode \in {"internal", "auto"}
                               THEN upstreamFinish ELSE finishReason
       /\ roundFinish' = finishReason
       /\ UNCHANGED upVars
       /\ IF stopReason = "tool_use" /\ toolCallMode \in {"internal", "auto"}
            THEN /\ internalNeedsFollowup' =
                      IF Len(internalToolResults) > 0 THEN TRUE ELSE internalNeedsFollowup
                 /\ UNCHANGED <<finVars, tokVars>>
            ELSE /\ finishResponse(stopReason, Tok)
                 /\ UNCHANGED internalNeedsFollowup
       /\ UNCHANGED <<EvFrame, toolVars, textVars, internalToolResults, chatHistory,
                      upstreamMessages>>

\* ------------------------------------------------------------ HandleMessages
\* selectAccount, then AcquireConnection and the deferred ReleaseConnection, the
\* response headers, the keep-alive goroutine and message_start
Entry ==
  /\ pc = "entry"
  /\ \E storeOk \in BOOLEAN, flusherOk \in BOOLEAN :
       LET acc == GetNextAccountExcludingByChannel(activeConns,
                    SeqToSet(failedAccountIDs), channel, storeOk)
       IN /\ selectErr' = GetNextAccountError(SeqToSet(failedAccountIDs), channel, storeOk)
          /\ IF acc = NoAccount
                 THEN /\ httpStatus' = 503
                      /\ pc' = "returned"
                      /\ UNCHANGED <<activeConns, acctVars, kaState, outq>>
               ELSE IF isStream /\ ~flusherOk
                 THEN \* "Streaming not supported": return, the deferred release runs
                      /\ httpStatus' = 500
                      /\ pc' = "returned"
                      /\ currentAccount' = acc
                      /\ selectLog' = selectLog \cup {acc}
                      /\ acquireLog' = acquireLog \cup {acc}
                      /\ releaseLog' = releaseLog \cup {acc}
                      /\ activeConns' = ReleaseConnection(AcquireConnection(activeConns, acc), acc)
                      /\ UNCHANGED <<deferredRelease, failedAccountIDs, kaState, outq>>
               ELSE /\ httpStatus' = 200
                    /\ pc' = "start"
                    /\ currentAccount' = acc
                    /\ selectLog' = selectLog \cup {acc}
                    /\ acquireLog' = acquireLog \cup {acc}
                    /\ deferredRelease' = acc
                    /\ activeConns' = AcquireConnection(activeConns, acc)
                    /\ kaState' = IF isStream THEN "idle" ELSE "off"
                    /\ outq' = Q(FALSE, << MessageStart >>)
                    /\ UNCHANGED <<failedAccountIDs, releaseLog>>
  /\ UNCHANGED <<cfgVars, lbcVars, execVars, auxVars, clock, notBefore, roundAttempts,
                 ctxCancelled,
                 retriesRemaining, attempts, keepAliveStop,
                 kaCount, toolVars, textVars, tokVars, intVars, hasReturn,
                 finalStopReason, pendingToolCalls, blockIndex, contentBlocks,
                 toolCallCount, finishCalls, mu, wire, obsVars>>

\* the client goes away: r.Context() is cancelled
Cancel ==
  /\ pc \in {"send", "backoff"}
  /\ outq = <<>>
  /\ ~ctxCancelled
  /\ ctxCancelled' = TRUE
  /\ UNCHANGED <<activeConns, cfgVars, lbcVars, execVars, auxVars, retryVars, acctVars, pc,
                 retriesRemaining, httpStatus,
                 attempts, kaVars, toolVars, textVars, tokVars, intVars, finVars, mu,
                 wire, obsVars>>

StartRoundWithMessageStart ==
  /\ pc = "start"
  /\ outq = <<>>
  /\ internalNeedsFollowup' = FALSE
  /\ internalToolResults' = <<>>
  /\ retriesRemaining' = IF maxRetries < 0 THEN 0 ELSE maxRetries
  /\ pc' = "send"
  /\ attempts' = attempts + 1
  /\ roundAttempts' = 1
  /\ outq' = Q(FALSE, << MessageStart >>)
  /\ UNCHANGED <<activeConns, cfgVars, lbcVars, execVars, auxVars, clock, notBefore, selectErr,
                 acctVars, ctxCancelled, httpStatus, kaVars,
                 toolVars, textVars, tokVars, chatHistory, upstreamMessages, hasReturn,
                 finalStopReason, pendingToolCalls, blockIndex, contentBlocks,
                 toolCallCount, finishCalls, mu, wire, obsVars>>

\* the head of the round loop, then the first SendRequest of the round
StartRound ==
  /\ pc = "start"
  /\ outq = <<>>
  /\ internalNeedsFollowup' = FALSE
  /\ internalToolResults' = <<>>
  /\ retriesRemaining' = IF maxRetries < 0 THEN 0 ELSE maxRetries
  /\ pc' = "send"
  /\ attempts' = attempts + 1
  /\ roundAttempts' = 1
  /\ roundFinish' = ""
  /\ UNCHANGED <<activeConns, cfgVars, lbcVars, execVars, auxVars, clock, notBefore, selectErr,
                 acctVars, ctxCancelled, httpStatus, kaVars,
                 toolVars, textVars, tokVars, chatHistory, upstreamMessages, finVars,
                 mu, wire, nEvents, upstreamFinish, upVars>>

ToolPairUseOnly(result) ==
  << [role |-> "assistant", type |-> "tool_use", id |-> result.id] >>

\* the tool_use / tool_result pair the follow-up appends for one result
ToolPair(result) ==
  << [role |-> "assistant", type |-> "tool_use", id |-> result.id],
     [role |-> "user", type |-> "tool_result", id |-> result.id] >>

RECURSIVE ToolPairs(_)
ToolPairs(results) ==
  IF results = <<>> THEN <<>>
  ELSE ToolPair(Head(results)) \o ToolPairs(Tail(results))

\* SendRequest returns nil: either the internal tool follow-up (which ends in
\* resetRoundState and continue) or the end of the goroutine
SendOk ==
  /\ pc = "send"
  /\ outq = <<>>
  /\ ~ctxCancelled
  /\ IF toolCallMode \in {"internal", "auto"} /\ internalNeedsFollowup
       THEN /\ upstreamMessages' = upstreamMessages \o ToolPairs(internalToolResults)
            /\ chatHistory' = chatHistory \o ToolPairs(internalToolResults)
            \* resetRoundState
            /\ blockIndex' = -1
            /\ toolBlocks' = EmptyMap
            /\ responseText' = 0
            /\ contentBlocks' = <<>>
            /\ currentTextIndex' = -1
            /\ textBlockBuilders' = EmptyMap
            /\ pendingToolCalls' = <<>>
            /\ toolInputNames' = EmptyMap
            /\ toolInputBuffers' = EmptyMap
            /\ toolInputHadDelta' = EmptyMap
            /\ toolCallHandled' = {}
            /\ currentToolInputID' = ""
            /\ toolCallCount' = 0
            /\ outputTokens' = 0
            /\ outputBuilder' = 0
            /\ useUpstreamUsage' = FALSE
            /\ finalStopReason' = ""
            /\ pc' = "start"
       ELSE /\ pc' = "done"
            /\ UNCHANGED <<upstreamMessages, chatHistory, blockIndex, toolBlocks,
                           responseText, contentBlocks, currentTextIndex,
                           textBlockBuilders, pendingToolCalls, toolInputNames,
                           toolInputBuffers, toolInputHadDelta, toolCallHandled,
                           currentToolInputID, toolCallCount, tokVars, finalStopReason>>
  /\ UNCHANGED <<activeConns, cfgVars, lbcVars, execVars, auxVars, retryVars, acctVars,
                 ctxCancelled, retriesRemaining,
                 httpStatus, attempts, kaVars, seenToolIds, internalToolResults,
                 internalNeedsFollowup, hasReturn, outq, finishCalls, mu, wire, nEvents,
                 upstreamFinish, roundFinish, upOpened, upCalled>>
  /\ upBlock' = "none"
  /\ upOpen' = {}

\* SendRequest returns an error: cancellation, retries used up, or failover to
\* another account and (after the back-off, if any) the next attempt
SendErr ==
  /\ pc = "send"
  /\ outq = <<>>
  /\ IF ctxCancelled \/ retriesRemaining <= 0
       THEN /\ finishResponse("end_turn", Tok)
            /\ pc' = "done"
            /\ UNCHANGED <<acctVars, retriesRemaining, attempts, notBefore,
                           roundAttempts, selectErr>>
       ELSE \E storeOk \in BOOLEAN, retryAfter \in retryAfters :
              LET failed == Append(failedAccountIDs, currentAccount)
                  acc == GetNextAccountExcludingByChannel(activeConns, SeqToSet(failed),
                                                          channel, storeOk)
              IN /\ retriesRemaining' = retriesRemaining - 1
                 /\ selectErr' = GetNextAccountError(SeqToSet(failed), channel, storeOk)
                 \* what the upstream asked for; the error SendRequest returns does
                 \* not carry it
                 /\ notBefore' = clock + parseRetryAfterHeader(retryAfter)
                 /\ failedAccountIDs' = failed
                 /\ UNCHANGED <<deferredRelease, releaseLog, acquireLog>>
                 /\ IF acc = NoAccount
                      THEN /\ finishResponse("end_turn", Tok)
                           /\ pc' = "done"
                           /\ UNCHANGED <<currentAccount, selectLog, attempts,
                                          roundAttempts>>
                      ELSE /\ currentAccount' = acc
                           /\ selectLog' = selectLog \cup {acc}
                           /\ pc' = IF retryDelay > 0 THEN "backoff" ELSE "send"
                           /\ attempts' = IF retryDelay > 0 THEN attempts ELSE attempts + 1
                           /\ roundAttempts' = IF retryDelay > 0 THEN roundAttempts
                                                ELSE roundAttempts + 1
                           /\ UNCHANGED <<finVars, tokVars>>
  /\ upBlock' = "none"
  /\ upOpen' = {}
  /\ UNCHANGED <<activeConns, cfgVars, lbcVars, execVars, auxVars, clock, ctxCancelled,
                 httpStatus, kaVars, toolVars,
                 textVars, intVars, mu, wire, nEvents, upstreamFinish, roundFinish,
                 upOpened,
                 upCalled>>

\* case <-time.After(retryDelay): the next attempt
BackoffElapsedIgnoringCancel ==
  /\ pc = "backoff"
  /\ pc' = "send"
  /\ attempts' = attempts + 1
  /\ roundAttempts' = roundAttempts + 1
  /\ clock' = clock + retryDelay
  /\ UNCHANGED <<activeConns, cfgVars, lbcVars, execVars, auxVars, notBefore, selectErr,
                 acctVars, ctxCancelled,
                 retriesRemaining, httpStatus, kaVars, toolVars, textVars, tokVars,
                 intVars, finVars, mu, wire, obsVars>>

BackoffElapsed ==
  /\ pc = "backoff"
  /\ ~ctxCancelled
  /\ pc' = "send"
  /\ attempts' = attempts + 1
  /\ roundAttempts' = roundAttempts + 1
  /\ clock' = clock + retryDelay
  /\ UNCHANGED <<activeConns, cfgVars, lbcVars, execVars, auxVars, notBefore, selectErr,
                 acctVars, ctxCancelled,
                 retriesRemaining, httpStatus, kaVars, toolVars, textVars, tokVars, intVars, finVars, mu,
                 wire, obsVars>>

\* case <-r.Context().Done(): finishResponse("end_turn"); return
BackoffCancelled ==
  /\ pc = "backoff"
  /\ ctxCancelled
  /\ finishResponse("end_turn", Tok)
  /\ pc' = "done"
  /\ UNCHANGED <<activeConns, cfgVars, lbcVars, execVars, auxVars, retryVars, acctVars,
                 ctxCancelled, retriesRemaining,
                 httpStatus, attempts, kaVars, toolVars, textVars, intVars, mu, wire,
                 obsVars>>

\* <-done; close(keepAliveStop); if !hasReturn { finishResponse("end_turn") }
MainAfterDone ==
  /\ pc = "done"
  /\ outq = <<>>
  /\ keepAliveStop' = isStream
  /\ IF ~hasReturn
       THEN finishResponse("end_turn", Tok)
       ELSE UNCHANGED <<finVars, tokVars>>
  /\ pc' = "respond"
  /\ UNCHANGED <<activeConns, cfgVars, lbcVars, execVars, auxVars, retryVars, acctVars,
                 ctxCancelled, retriesRemaining,
                 httpStatus, attempts, kaState, kaCount, toolVars, textVars, intVars,
                 mu, wire, obsVars>>

\* the text of the blocks of the non-streaming response
FillText(cbs) ==
  [i \in 1..Len(cbs) |->
     IF cbs[i].type = "text" /\ (i - 1) \in DOMAIN textBlockBuilders
       THEN [cbs[i] EXCEPT !.text = textBlockBuilders[i - 1]]
       ELSE cbs[i]]

\* the non-streaming response body, then the return of HandleMessages, which runs
\* the deferred ReleaseConnection
Return ==
  /\ pc = "respond"
  /\ outq = <<>>
  /\ contentBlocks' =
       IF isStream THEN contentBlocks
       ELSE IF Len(contentBlocks) = 0 /\ responseText > 0
         THEN << [type |-> "text", id |-> "", text |-> responseText] >>
         ELSE FillText(contentBlocks)
  /\ activeConns' = IF deferredRelease # NoAccount
                      THEN ReleaseConnection(activeConns, deferredRelease)
                      ELSE activeConns
  /\ releaseLog' = IF deferredRelease # NoAccount
                     THEN releaseLog \cup {deferredRelease} ELSE releaseLog
  /\ pc' = "returned"
  /\ UNCHANGED <<cfgVars, lbcVars, execVars, auxVars, retryVars, currentAccount,
                 deferredRelease, failedAccountIDs, selectLog,
                 acquireLog, ctxCancelled, retriesRemaining, httpStatus, attempts,
                 kaVars, toolVars, textVars, tokVars, intVars, hasReturn,
                 finalStopReason, pendingToolCalls, blockIndex, outq, toolCallCount,
                 finishCalls, mu, wire, obsVars>>

\* ----------------------------------------------------------- specifications
\* what neither the load balancer nor the tool executor touches
lbRest == <<activeConns, cfgVars, notBefore, roundAttempts, selectErr, acctVars,
            ctlVars, kaVars, toolVars, textVars, tokVars, intVars, finVars, mu, wire,
            obsVars>>

\* ------------------------------------------------------ local tool execution
\* a safeToolResult: isError, the error text, and the program that was run ("" for
\* none)
ToolOk(prog) == [state |-> "done", isError |-> FALSE, err |-> "", ran |-> prog]
ToolErr(e, prog) == [state |-> "done", isError |-> TRUE, err |-> e, ran |-> prog]
NoToolResult == [state |-> "pending", isError |-> FALSE, err |-> "", ran |-> ""]

\* strings.HasPrefix(arg, "-")
HasDashPrefix(tok) ==
  tok \in {"-a", "-x", "-maxdepth", "-type", "-name", "-not", "-path", "-o"}

\* strconv.Atoi succeeds
IsNumber(tok) == tok \in {"1"}

\* strings.Split(segment, "|")
RECURSIVE SplitPipe(_)
SplitPipe(tokens) ==
  IF \A i \in 1..Len(tokens) : tokens[i] # "|" THEN << tokens >>
  ELSE LET k == CHOOSE i \in 1..Len(tokens) :
                  tokens[i] = "|" /\ \A j \in 1..(i - 1) : tokens[j] # "|"
       IN << SubSeq(tokens, 1, k - 1) >> \o SplitPipe(SubSeq(tokens, k + 1, Len(tokens)))

RECURSIVE LSArgs(_, _, _)
LSArgs(args, i, hasPath) ==
  IF i > Len(args) THEN ""
  ELSE IF HasDashPrefix(args[i])
    THEN IF args[i] \in {"-a", "-l", "-la", "-al"}
           THEN LSArgs(args, i + 1, hasPath)
           ELSE "ls flag not allowed"
  ELSE IF hasPath THEN "ls supports a single path argument"
  ELSE LSArgs(args, i + 1, TRUE)

runSafeLS(args) ==
  LET e == LSArgs(args, 1, FALSE)
  IN IF e # "" THEN ToolErr(e, "") ELSE ToolOk("ls")

\* the option loop of runSafeFind: "" or the error it stops with
RECURSIVE FindOptions(_, _)
FindOptions(args, i) ==
  IF i > Len(args) THEN ""
  ELSE IF args[i] = "-maxdepth"
    THEN IF i + 1 > Len(args) THEN "missing value for -maxdepth"
         ELSE IF ~IsNumber(args[i + 1]) THEN "invalid -maxdepth"
         ELSE FindOptions(args, i + 2)
  ELSE IF args[i] = "-type"
    THEN IF i + 1 > Len(args) THEN "missing value for -type"
         ELSE IF args[i + 1] \notin {"f", "d"} THEN "only -type f/d supported"
         ELSE FindOptions(args, i + 2)
  ELSE IF args[i] = "-name"
    THEN IF i + 1 > Len(args) THEN "missing value for -name"
         ELSE IF args[i + 1] = "*/.*" THEN "invalid -name pattern"
         ELSE FindOptions(args, i + 2)
  ELSE IF args[i] = "-o" THEN FindOptions(args, i + 1)
  ELSE IF args[i] = "-not"
    THEN IF i + 2 > Len(args) THEN "invalid -not syntax"
         ELSE IF args[i + 1] # "-path" THEN "only -not -path supported"
         ELSE IF args[i + 2] # "*/.*" THEN "unsupported -not -path pattern"
         ELSE FindOptions(args, i + 3)
  ELSE "unsupported find option"

runSafeFind(args) ==
  LET rest == IF Len(args) > 0 /\ ~HasDashPrefix(args[1]) THEN Tail(args) ELSE args
      e == FindOptions(rest, 1)
  IN IF e # "" THEN ToolErr(e, "") ELSE ToolOk("find")

runSafeSimpleAnyCommand(tokens) ==
  IF Len(tokens) = 0 THEN ToolErr("invalid command format", "")
  ELSE IF tokens[1] = "pwd" THEN ToolOk("pwd")
  ELSE IF tokens[1] = "ls" THEN runSafeLS(Tail(tokens))
  ELSE IF tokens[1] = "find" THEN runSafeFind(Tail(tokens))
  ELSE ToolOk(tokens[1])

runSafeSimple(tokens) ==
  IF Len(tokens) = 0 THEN ToolErr("invalid command format", "")
  ELSE IF tokens[1] = "pwd" THEN ToolOk("pwd")
  ELSE IF tokens[1] = "ls" THEN runSafeLS(Tail(tokens))
  ELSE IF tokens[1] = "find" THEN runSafeFind(Tail(tokens))
  ELSE ToolErr("command not allowed", "")

\* applyHead: "" or the error it returns
applyHead(tokens) ==
  IF Len(tokens) = 0 THEN "invalid head segment"
  ELSE IF tokens[1] # "head" THEN "only head pipe is supported"
  ELSE IF Len(tokens) = 1 THEN ""
  ELSE IF HasDashPrefix(tokens[2])
    THEN IF tokens[2] = "-n"
           THEN IF Len(tokens) < 3 THEN "missing head -n value"
                ELSE IF ~IsNumber(tokens[3]) THEN "invalid head -n value"
                ELSE ""
           ELSE "invalid head value"
  ELSE IF ~IsNumber(tokens[2]) THEN "invalid head value"
  ELSE ""

runSafeSegment(segment) ==
  LET parts == SplitPipe(segment)
  IN IF Len(parts) > 2 THEN ToolErr("unsupported pipe usage", "")
     ELSE IF Len(parts[1]) = 0 THEN ToolErr("empty command segment", "")
     ELSE LET out == runSafeSimple(parts[1])
          IN IF out.isError THEN out
             ELSE IF Len(parts) = 2
               THEN IF Len(parts[2]) = 0 THEN ToolErr("invalid pipe segment", out.ran)
                    ELSE IF applyHead(parts[2]) # ""
                      THEN ToolErr(applyHead(parts[2]), out.ran)
                    ELSE out
             ELSE out

\* the executor behind runSafeCommand: the whitelisted subset, one segment
runShellCommand(command) == runSafeSegment(command)

runSafeCommand(command, getwdOk) ==
  IF Len(command) = 0 THEN ToolErr("empty command", "")
  ELSE IF ~getwdOk THEN ToolErr("failed to resolve working directory", "")
  ELSE runShellCommand(command)

executeSafeTool(command, getwdOk) ==
  IF Len(command) = 0 THEN ToolErr("tool input missing command", "")
  ELSE runSafeCommand(command, getwdOk)

\* no tool call at hand
IdleExecutor ==
  /\ toolCommand = <<>>
  /\ toolResult = ToolOk("")

\* handleToolCall in mode internal: result := executeSafeTool(call)
ExecuteSafeTool ==
  /\ toolResult.state = "pending"
  /\ \E getwdOk \in BOOLEAN : toolResult' = executeSafeTool(toolCommand, getwdOk)
  /\ UNCHANGED <<lbRest, auxVars, clock, lbcVars, toolCommand>>

\* ------------------------------------------- the enabled-accounts snapshot
\* ORDER BY weight DESC, id
Precedes(a, b) ==
  \/ a.weight > b.weight
  \/ (a.weight = b.weight /\ a.id < b.id)

RECURSIVE SortAccounts(_)
SortAccounts(S) ==
  IF S = {} THEN <<>>
  ELSE LET first == CHOOSE a \in S : \A b \in S \ {a} : Precedes(a, b)
       IN <<first>> \o SortAccounts(S \ {first})

EnabledIDs(st) == {i \in DOMAIN st : st[i].enabled}

AllAccounts(st) ==
  SortAccounts({[id |-> i, weight |-> st[i].weight, agentMode |-> st[i].agentMode] :
                  i \in DOMAIN st})

\* SELECT ... FROM accounts WHERE enabled = 1 ORDER BY weight DESC, id
GetEnabledAccounts(st) ==
  SortAccounts({[id |-> i, weight |-> st[i].weight, agentMode |-> st[i].agentMode] :
                  i \in EnabledIDs(st)})

CacheValidAnyAge(cached, expires, now) == Len(cached) > 0

\* len(lb.cachedAccounts) > 0 && now.Before(lb.cacheExpires)
CacheValid(cached, expires, now) ==
  Len(cached) > 0 /\ now < expires

\* a goroutine that is not inside GetNextAccountExcludingByChannel
IdleCall ==
  [pc |-> "idle", now |-> 0, accounts |-> <<>>, fetchedAt |-> 0, fetchEnabled |-> {},
   fromCache |-> FALSE, exclude |-> {}, ch |-> "", conns |-> <<>>, storeOk |-> TRUE,
   id |-> NoAccount, err |-> ""]

\* the accounts table and the load balancer behind the handler: the catalog, all
\* enabled, nothing cached, no call in progress
IdleBalancer ==
  /\ store = [i \in AccountIDs |->
               [enabled |-> TRUE, weight |-> Catalog[i].weight,
                agentMode |-> Catalog[i].agentMode]]
  /\ cachedAccounts = <<>>
  /\ cacheExpires = 0
  /\ cacheFetch = [at |-> 0, enabled |-> {}]
  /\ sel = [g \in Callers |-> IdleCall]
  /\ selInputs = [g \in Callers |-> {}]
  /\ clockLimit = 0

\* GetNextAccountExcludingByChannel is entered; getEnabledAccounts reads the clock
SelCall(g) ==
  /\ sel[g].pc = "idle"
  /\ \E in \in selInputs[g] :
       sel' = [sel EXCEPT ![g] = [IdleCall EXCEPT !.pc = "check", !.now = clock,
                                                   !.exclude = in.exclude,
                                                   !.ch = in.ch]]
  /\ UNCHANGED <<lbRest, auxVars, execVars, clock, store, cachedAccounts, cacheExpires,
                 cacheFetch,
                 selInputs, clockLimit>>

\* under RLock: serve the copy of the cached list, or go on to the store
SelCheck(g) ==
  /\ sel[g].pc = "check"
  /\ sel' = [sel EXCEPT ![g] =
               IF CacheValid(cachedAccounts, cacheExpires, sel[g].now)
                 THEN [@ EXCEPT !.pc = "select", !.accounts = cachedAccounts,
                                !.fromCache = TRUE, !.fetchedAt = cacheFetch.at,
                                !.fetchEnabled = cacheFetch.enabled]
                 ELSE [@ EXCEPT !.pc = "fetch"]]
  /\ UNCHANGED <<lbRest, auxVars, execVars, clock, store, cachedAccounts, cacheExpires,
                 cacheFetch,
                 selInputs, clockLimit>>

\* lb.Store.GetEnabledAccounts(), which may fail
SelFetch(g) ==
  /\ sel[g].pc = "fetch"
  /\ \E ok \in BOOLEAN :
       sel' = [sel EXCEPT ![g] =
                 IF ok THEN [@ EXCEPT !.pc = "write",
                                      !.accounts = GetEnabledAccounts(store),
                                      !.fetchedAt = clock,
                                      !.fetchEnabled = EnabledIDs(store)]
                       ELSE [@ EXCEPT !.pc = "idle", !.err = "store"]]
  /\ UNCHANGED <<lbRest, auxVars, execVars, clock, store, cachedAccounts, cacheExpires,
                 cacheFetch,
                 selInputs, clockLimit>>

\* under Lock: cachedAccounts = accounts; cacheExpires = now.Add(cacheTTL)
SelWrite(g) ==
  /\ sel[g].pc = "write"
  /\ cachedAccounts' = sel[g].accounts
  /\ cacheExpires' = sel[g].now + CacheTTL
  /\ cacheFetch' = [at |-> sel[g].fetchedAt, enabled |-> sel[g].fetchEnabled]
  /\ sel' = [sel EXCEPT ![g].pc = "select"]
  /\ UNCHANGED <<lbRest, auxVars, execVars, clock, store, selInputs, clockLimit>>

\* the filters, selectAccount and IncrementRequestCount; the call returns (its
\* two time stamps are dropped)
SelReturn(g) ==
  /\ sel[g].pc = "select"
  /\ \E ok \in BOOLEAN :
       sel' = [sel EXCEPT ![g] =
                 [@ EXCEPT !.pc = "idle",
                           !.now = 0,
                           !.fetchedAt = 0,
                           !.conns = activeConns,
                           !.storeOk = ok,
                           !.id = SelectIn(sel[g].accounts, activeConns,
                                           sel[g].exclude, sel[g].ch, ok),
                           !.err = SelectErrorIn(sel[g].accounts, sel[g].exclude,
                                                 sel[g].ch, ok)]]
  /\ UNCHANGED <<lbRest, auxVars, execVars, clock, store, cachedAccounts, cacheExpires,
                 cacheFetch,
                 selInputs, clockLimit>>

\* an admin update of an account: UPDATE accounts SET ... enabled = ?
AdminSetEnabled ==
  \E id \in AccountIDs :
    /\ store' = [store EXCEPT ![id].enabled = ~store[id].enabled]
    /\ UNCHANGED <<lbRest, auxVars, execVars, clock, cachedAccounts, cacheExpires, cacheFetch,
                   sel,
                   selInputs, clockLimit>>

\* time passes
Tick ==
  /\ clock < clockLimit
  /\ clock' = clock + 1
  /\ UNCHANGED <<lbRest, auxVars, execVars, lbcVars>>

\* ------------------------------------------------------ concurrency limiter
\* what the actions outside the handler and the load balancer leave alone
coreVars == <<lbRest, clock, lbcVars, execVars, extVars>>
oldVars == <<lbRest, clock, lbcVars, execVars, limVars, dedupVars, jwtVars, warpVars,
             modelVars>>
topicRest == <<oldVars, sseVars, memVars, loopVars>>
sseRest == <<oldVars, topicVars, memVars, loopVars>>
memRest == <<oldVars, topicVars, sseVars, loopVars>>
loopRest == <<oldVars, topicVars, sseVars, memVars>>
baseVars == <<coreVars, dedupVars, jwtVars, warpVars, modelVars>>

Requests == 1..MaxRequests
\* the configured concurrency limit; 0 stands for "not set"
LimitConfigs == 0..MaxLimit
DefaultMaxConcurrent == 100
BusyBody == "Request timeout or server busy"

\* NewConcurrencyLimiter: if maxConcurrent <= 0 { maxConcurrent = 100 }
NewConcurrencyLimiter(configured) ==
  IF configured <= 0 THEN DefaultMaxConcurrent ELSE configured

\* a request that has not reached the limiter
NewRequest ==
  [pc |-> "idle", status |-> 0, body |-> "", invoked |-> 0, released |-> 0,
   panicked |-> FALSE, ctxDone |-> FALSE]

IdleLimiter ==
  /\ maxConcurrent = NewConcurrencyLimiter(0)
  /\ semCur = 0
  /\ activeCount = 0
  /\ totalReqs = 0
  /\ rejectedReqs = 0
  /\ req = [r \in Requests |-> NewRequest]

\* ------------------------------------------------------ request deduplicator
Fingerprints == {"k", "old"}
\* the sweep horizon: 2 * window
duplicateCleanupWindow == 2 * DuplicateWindow
MaxDedupClock == duplicateCleanupWindow + 2

NoRecent == [present |-> FALSE, last |-> 0, inFlight |-> 0]

\* an entry that makes a new arrival a duplicate
Live(rr, fp, now) == rr[fp].present /\ now - rr[fp].last < DuplicateWindow

registerRequestCountsDuplicates(rr, fp, now, refresh) ==
  IF Live(rr, fp, now)
    THEN [rr |-> [rr EXCEPT ![fp].last = IF refresh THEN now ELSE @,
                            ![fp].inFlight = @ + 1],
          dup |-> TRUE, inFlight |-> rr[fp].inFlight > 0]
    ELSE [rr |-> [rr EXCEPT ![fp] = [present |-> TRUE, last |-> now,
                                     inFlight |-> rr[fp].inFlight + 1]],
          dup |-> FALSE, inFlight |-> FALSE]

\* registerRequest: a first arrival is recorded as in flight; an arrival within
\* the window of an entry is a duplicate and reports whether the entry is in
\* flight. Whether a duplicate refreshes last is left open (refresh).
registerRequest(rr, fp, now, refresh) ==
  IF Live(rr, fp, now)
    THEN [rr |-> [rr EXCEPT ![fp].last = IF refresh THEN now ELSE @],
          dup |-> TRUE, inFlight |-> rr[fp].inFlight > 0]
    ELSE [rr |-> [rr EXCEPT ![fp] = [present |-> TRUE, last |-> now,
                                     inFlight |-> rr[fp].inFlight + 1]],
          dup |-> FALSE, inFlight |-> FALSE]

\* finishRequest: one holder less
finishRequest(rr, fp) ==
  IF rr[fp].present /\ rr[fp].inFlight > 0
    THEN [rr EXCEPT ![fp].inFlight = @ - 1]
    ELSE rr

Expired(rr, fp, now) ==
  rr[fp].present /\ rr[fp].inFlight = 0 /\ now - rr[fp].last > duplicateCleanupWindow

cleanupRecentIgnoringInFlight(rr, now) ==
  [fp \in Fingerprints |->
     IF rr[fp].present /\ now - rr[fp].last > duplicateCleanupWindow
       THEN NoRecent ELSE rr[fp]]

\* cleanupRecentLocked: drop the entries that are finished and older than the
\* horizon
cleanupRecentLocked(rr, now) ==
  [fp \in Fingerprints |-> IF Expired(rr, fp, now) THEN NoRecent ELSE rr[fp]]

NoDedupOp == [op |-> "none", fp |-> "", dup |-> FALSE, inFlight |-> FALSE,
              live |-> FALSE, holders |-> 0]

IdleDedup ==
  /\ recentRequests = [fp \in Fingerprints |-> NoRecent]
  /\ dedupNow = 0
  /\ dedupHolders = [fp \in Fingerprints |-> 0]
  /\ dedupRet = NoDedupOp

\* a request arrives: dup, inFlight := h.registerRequest(fp); an arrival that
\* is not a duplicate goes on and finishes later
RegisterRequest(fp) ==
  /\ dedupHolders[fp] < MaxHolders
  /\ \E refresh \in BOOLEAN :
       LET res == registerRequest(recentRequests, fp, dedupNow, refresh) IN
         /\ recentRequests' = res.rr
         /\ dedupRet' = [op |-> "register", fp |-> fp, dup |-> res.dup,
                         inFlight |-> res.inFlight,
                         live |-> Live(recentRequests, fp, dedupNow),
                         holders |-> dedupHolders[fp]]
         /\ dedupHolders' = [dedupHolders EXCEPT
                               ![fp] = IF res.dup THEN @ ELSE @ + 1]
  /\ UNCHANGED <<coreVars, limVars, jwtVars, warpVars, modelVars, dedupNow>>

\* the original is over: h.finishRequest(fp)
FinishRequest(fp) ==
  /\ dedupHolders[fp] > 0
  /\ recentRequests' = finishRequest(recentRequests, fp)
  /\ dedupHolders' = [dedupHolders EXCEPT ![fp] = @ - 1]
  /\ dedupRet' = [NoDedupOp EXCEPT !.op = "finish", !.fp = fp]
  /\ UNCHANGED <<coreVars, limVars, jwtVars, warpVars, modelVars, dedupNow>>

\* the periodic sweep: h.cleanupRecentLocked(now)
CleanupRecent ==
  /\ recentRequests' = cleanupRecentLocked(recentRequests, dedupNow)
  /\ dedupRet' = [NoDedupOp EXCEPT !.op = "sweep"]
  /\ UNCHANGED <<coreVars, limVars, jwtVars, warpVars, modelVars, dedupNow, dedupHolders>>

DedupTick ==
  /\ dedupNow < MaxDedupClock
  /\ dedupNow' = dedupNow + 1
  /\ dedupRet' = [NoDedupOp EXCEPT !.op = "tick"]
  /\ UNCHANGED <<coreVars, limVars, jwtVars, warpVars, modelVars, recentRequests, dedupHolders>>

\* ------------------------------------------------------- session-token cache
defaultTokenTTL == 300
tokenExpirySkew == 30

\* session ids of the configured accounts; "" is an account without one
SessionIDs == {"", "sess"}
\* the moments the clock is read at, in seconds
TokenTimes == {0, 60, 61}

\* a token by what tokenExpiry can see of it: the number of dot-separated
\* parts, whether the second part decodes and parses, and its exp claim
Jwt(name, parts, payload, expKind, exp, frac) ==
  [name |-> name, parts |-> parts, payload |-> payload, expKind |-> expKind,
   exp |-> exp, frac |-> frac]

EmptyToken == Jwt("", 1, "badb64", "missing", 0, FALSE)

TokenInputs ==
  { EmptyToken,
    Jwt("opaque", 1, "badb64", "missing", 0, FALSE),
    Jwt("h.!!.s", 3, "badb64", "missing", 0, FALSE),
    Jwt("h.notjson.s", 3, "badjson", "missing", 0, FALSE),
    Jwt("h.{}.s", 3, "json", "missing", 0, FALSE),
    Jwt("h.{exp:'90'}.s", 3, "json", "string", 0, FALSE),
    Jwt("h.{exp:0}.s", 3, "json", "number", 0, FALSE),
    Jwt("h.{exp:90}", 2, "json", "number", 90, FALSE),
    Jwt("h.{exp:90.5}.s", 3, "json", "number", 90, TRUE) }

ZeroTime == [zero |-> TRUE, t |-> 0]
TimeAt(t) == [zero |-> FALSE, t |-> t]

\* tokenExpiry: the zero time unless the token has two parts or more, the
\* second one decodes as unpadded URL-safe base64 and parses as a JSON object
\* with a numeric exp whose integer part is not 0; then time.Unix(exp) - skew
tokenExpiry(token) ==
  IF token.parts < 2 THEN ZeroTime
  ELSE IF token.payload = "badb64" THEN ZeroTime
  ELSE IF token.payload = "badjson" THEN ZeroTime
  ELSE IF token.expKind = "missing" THEN ZeroTime
  ELSE LET exp == IF token.expKind = "number" THEN token.exp ELSE 0 IN
         IF exp = 0 THEN ZeroTime ELSE TimeAt(exp - tokenExpirySkew)

NoCachedToken == [present |-> FALSE, token |-> EmptyToken, expiresAt |-> 0]

setCachedTokenNoFallback(items, sessionID, token, now) ==
  IF sessionID = "" \/ token = EmptyToken THEN items
  ELSE [items EXCEPT ![sessionID] =
          [present |-> TRUE, token |-> token, expiresAt |-> tokenExpiry(token).t]]

\* setCachedToken
setCachedToken(items, sessionID, token, now) ==
  IF sessionID = "" \/ token = EmptyToken THEN items
  ELSE LET expiry == tokenExpiry(token)
           expiresAt == IF expiry.zero THEN now + defaultTokenTTL ELSE expiry.t
       IN [items EXCEPT ![sessionID] =
             [present |-> TRUE, token |-> token, expiresAt |-> expiresAt]]

TokenCallers == 1..MaxCallers

\* entry: the entry read by the lookup, or the one left by the store; at: the
\* clock the call read; evicted: the lookup left no entry for the session;
\* others: the store left the entries of the other sessions alone
IdleTokenCall ==
  [pc |-> "idle", sessionID |-> "", entry |-> NoCachedToken, at |-> 0,
   token |-> EmptyToken, evicted |-> FALSE, others |-> TRUE]

IdleTokenCache ==
  /\ tokenCacheItems = [sid \in SessionIDs |-> NoCachedToken]
  /\ tokenNow = 0
  /\ tokenCall = [g \in TokenCallers |-> IdleTokenCall]

\* GetToken calls getCachedToken, which reads the entry under the read lock
GetCachedTokenRead(g, sessionID) ==
  /\ tokenCall[g].pc = "idle"
  /\ tokenCall' = [tokenCall EXCEPT ![g] =
       IF sessionID = "" \/ ~tokenCacheItems[sessionID].present
         THEN [IdleTokenCall EXCEPT !.pc = "miss", !.sessionID = sessionID,
                                    !.at = tokenNow]
         ELSE [IdleTokenCall EXCEPT !.pc = "check", !.sessionID = sessionID,
                                    !.entry = tokenCacheItems[sessionID]]]
  /\ UNCHANGED <<coreVars, limVars, dedupVars, warpVars, modelVars, tokenCacheItems, tokenNow>>

GetCachedTokenCheckStrict(g) ==
  /\ tokenCall[g].pc = "check"
  /\ IF tokenNow >= tokenCall[g].entry.expiresAt
       THEN /\ tokenCacheItems' =
                 [tokenCacheItems EXCEPT ![tokenCall[g].sessionID] = NoCachedToken]
            /\ tokenCall' = [tokenCall EXCEPT ![g].pc = "miss", ![g].at = tokenNow,
                                              ![g].evicted =
                                ~tokenCacheItems'[tokenCall[g].sessionID].present]
       ELSE /\ tokenCall' = [tokenCall EXCEPT ![g].pc = "hit", ![g].at = tokenNow,
                                              ![g].token = tokenCall[g].entry.token]
            /\ UNCHANGED tokenCacheItems
  /\ UNCHANGED <<coreVars, limVars, dedupVars, warpVars, modelVars, tokenNow>>

\* getCachedToken reads the clock: after expiresAt the session's entry is
\* deleted under the write lock and the lookup is a miss, else it is a hit
GetCachedTokenCheck(g) ==
  /\ tokenCall[g].pc = "check"
  /\ IF tokenNow > tokenCall[g].entry.expiresAt
       THEN /\ tokenCacheItems' =
                 [tokenCacheItems EXCEPT ![tokenCall[g].sessionID] = NoCachedToken]
            /\ tokenCall' = [tokenCall EXCEPT ![g].pc = "miss", ![g].at = tokenNow,
                                              ![g].evicted =
                                ~tokenCacheItems'[tokenCall[g].sessionID].present]
       ELSE /\ tokenCall' = [tokenCall EXCEPT ![g].pc = "hit", ![g].at = tokenNow,
                                              ![g].token = tokenCall[g].entry.token]
            /\ UNCHANGED tokenCacheItems
  /\ UNCHANGED <<coreVars, limVars, dedupVars, warpVars, modelVars, tokenNow>>

\* GetToken after a miss: the token endpoint answered with jwt and
\* setCachedToken(c.config.SessionID, tokenResp.JWT) stores it
SetCachedToken(g, jwt) ==
  /\ tokenCall[g].pc = "miss"
  /\ tokenCacheItems' =
       setCachedToken(tokenCacheItems, tokenCall[g].sessionID, jwt, tokenNow)
  /\ tokenCall' = [tokenCall EXCEPT ![g] =
       [IdleTokenCall EXCEPT
          !.pc = "fetched", !.sessionID = tokenCall[g].sessionID, !.token = jwt,
          !.at = tokenNow,
          !.entry = tokenCacheItems'[tokenCall[g].sessionID],
          !.others = \A sid \in SessionIDs \ {tokenCall[g].sessionID} :
                       tokenCacheItems'[sid] = tokenCacheItems[sid]]]
  /\ UNCHANGED <<coreVars, limVars, dedupVars, warpVars, modelVars, tokenNow>>

\* GetToken returns (a cached or a fetched token, or the error of the fetch)
GetTokenReturn(g) ==
  /\ tokenCall[g].pc \in {"hit", "miss", "fetched"}
  /\ tokenCall' = [tokenCall EXCEPT ![g] = IdleTokenCall]
  /\ UNCHANGED <<coreVars, limVars, dedupVars, warpVars, modelVars, tokenCacheItems, tokenNow>>

TokenTick ==
  /\ \E t \in TokenTimes : t > tokenNow /\ tokenNow' = t
  /\ UNCHANGED <<coreVars, limVars, dedupVars, warpVars, modelVars, tokenCacheItems, tokenCall>>

\* ------------------------------------------------------------- warp budget
WarpHardBudget == 12000
WrapperOverhead == 200

\* a block by its type, the tokens tiktoken estimates for its text, and whether
\* the content of a tool_result is a string
Block(type, tokens, isString) == [type |-> type, tokens |-> tokens, isString |-> isString]

\* a message with string content, and a message with blocks
TextMessage(role, tokens) ==
  [role |-> role, isString |-> TRUE, tokens |-> tokens, blocks |-> <<>>]
BlockMessage(role, blocks) ==
  [role |-> role, isString |-> FALSE, tokens |-> 0, blocks |-> blocks]

\* the messages after compressToolResults
WarpMessages ==
  { TextMessage("user", 100),
    TextMessage("user", 6000),
    TextMessage("assistant", 3000),
    BlockMessage("assistant", << Block("text", 5000, TRUE), Block("tool_use", 0, FALSE) >>),
    BlockMessage("user", << Block("tool_result", 1800, TRUE) >>),
    BlockMessage("user", << Block("tool_result", 0, FALSE) >>) }

WarpPromptTokens == {0, 5000}
WarpMaxTokens == {-1, 0, 6000, 12000, 20000}

RECURSIVE BlockTokens(_)
BlockTokens(blocks) ==
  IF blocks = <<>> THEN 0
  ELSE LET b == Head(blocks) IN
    ( IF b.type = "text" THEN b.tokens + 10
      ELSE IF b.type = "tool_result"
        THEN IF b.isString THEN b.tokens + 10 ELSE 200
      ELSE 50 ) + BlockTokens(Tail(blocks))

RECURSIVE MessagesTotal(_)
MessagesTotal(messages) ==
  IF messages = <<>> THEN 0
  ELSE LET m == Head(messages) IN
    ( IF m.isString THEN m.tokens + 15 ELSE BlockTokens(m.blocks) )
      + MessagesTotal(Tail(messages))

\* estimateWarpTokensBreakdown(...).Total
estimateWarpTokens(promptTokens, messages) ==
  promptTokens + MessagesTotal(messages) + WrapperOverhead

\* work[start:], start counted from 0
From(work, start) == SubSeq(work, start + 1, Len(work))

\* the index, from 0, of the last user message, or of the last message
LastUser(work) ==
  LET users == {i \in 1..Len(work) : work[i].role = "user"} IN
    IF users = {} THEN Len(work) - 1
    ELSE (CHOOSE i \in users : \A j \in users : j <= i) - 1

RECURSIVE DropOldestNoBreak(_, _, _, _, _)
DropOldestNoBreak(promptTokens, work, lastUser, budget, start) ==
  IF start < lastUser /\ Len(From(work, start)) > 1
    THEN DropOldestNoBreak(promptTokens, work, lastUser, budget, start + 1)
    ELSE start

\* the loop of enforceWarpBudget: the value of start when it ends
RECURSIVE DropOldest(_, _, _, _, _)
DropOldest(promptTokens, work, lastUser, budget, start) ==
  IF start < lastUser /\ Len(From(work, start)) > 1
    THEN IF estimateWarpTokens(promptTokens, From(work, start + 1)) <= budget
           THEN start + 1
           ELSE DropOldest(promptTokens, work, lastUser, budget, start + 1)
    ELSE start

\* enforceWarpBudget on the compressed messages: trimmed and droppedMessages
enforceWarpBudget(promptTokens, compressed, maxTokens) ==
  LET b0 == IF maxTokens <= 0 THEN WarpHardBudget ELSE maxTokens
      budget == IF b0 > WarpHardBudget THEN WarpHardBudget ELSE b0
  IN IF estimateWarpTokens(promptTokens, compressed) <= budget
       THEN [trimmed |-> compressed, dropped |-> 0]
       ELSE LET start == DropOldest(promptTokens, compressed, LastUser(compressed),
                                    budget, 0)
            IN [trimmed |-> From(compressed, start), dropped |-> start]

NoWarpCall == [promptTokens |-> 0, messages |-> <<>>, maxTokens |-> 0]
NoWarpResult == [done |-> FALSE, trimmed |-> <<>>, dropped |-> 0]

IdleWarp ==
  /\ warpIn = NoWarpCall
  /\ warpOut = NoWarpResult

\* the handler of a Warp request calls enforceWarpBudget
EnforceWarpBudget ==
  /\ ~warpOut.done
  /\ LET res == enforceWarpBudget(warpIn.promptTokens, warpIn.messages,
                                  warpIn.maxTokens)
     IN warpOut' = [done |-> TRUE, trimmed |-> res.trimmed, dropped |-> res.dropped]
  /\ UNCHANGED <<coreVars, limVars, dedupVars, jwtVars, modelVars, warpIn>>

\* ----------------------------------------------------------- model catalog
\* the ids are numerals; 0 stands for the empty id of a model to be created
ModelIDs == 1..MaxModels
StoreModes == {"redis", "sqlite"}

NoModel == [present |-> FALSE, channel |-> "", isDefault |-> FALSE]
Row(m) == [present |-> TRUE, channel |-> m.channel, isDefault |-> m.isDefault]

\* the arguments of CreateModel and UpdateModel
ModelInputs == [id : 0..MaxModels, channel : Channels, isDefault : BOOLEAN]

Present(ms) == {id \in ModelIDs : ms[id].present}
MaxID(ms) == IF Present(ms) = {} THEN 0
             ELSE CHOOSE id \in Present(ms) : \A other \in Present(ms) : other <= id

\* UPDATE models SET is_default = 0 WHERE channel = ? [AND id != ?]
ClearDefaults(ms, ch, except) ==
  [id \in ModelIDs |->
     IF ms[id].present /\ ms[id].channel = ch /\ id \notin except
       THEN [ms[id] EXCEPT !.isDefault = FALSE] ELSE ms[id]]

\* CreateModel on s.db, under s.mu: an empty id becomes MAX(id) + 1, the
\* defaults of the channel are cleared (execOk: the UPDATE went through, its
\* error is dropped), and the INSERT fails on a taken id
SqlCreateModel(ms, m, execOk) ==
  LET id == IF m.id = 0 THEN MaxID(ms) + 1 ELSE m.id
      cleared == IF m.isDefault /\ execOk
                   THEN ClearDefaults(ms, m.channel, {}) ELSE ms
  IN IF cleared[id].present THEN cleared
     ELSE [cleared EXCEPT ![id] = Row(m)]

\* UpdateModel on s.db, under s.mu
SqlUpdateModel(ms, m, execOk) ==
  LET cleared == IF m.isDefault /\ execOk
                   THEN ClearDefaults(ms, m.channel, {m.id}) ELSE ms
  IN IF cleared[m.id].present THEN [cleared EXCEPT ![m.id] = Row(m)] ELSE cleared

\* DELETE FROM models WHERE id = ?, and s.models.DeleteModel(id)
DeleteModel(ms, id) == [ms EXCEPT ![id] = NoModel]

NoModelOp == [kind |-> "none", m |-> [id |-> 0, channel |-> "", isDefault |-> FALSE],
              todo |-> {}]

\* the catalog after seedModels, cut to the models of two channels
SeededModels ==
  [id \in ModelIDs |->
     IF id = 1 THEN [present |-> TRUE, channel |-> "orchids", isDefault |-> TRUE]
     ELSE IF id = 2 THEN [present |-> TRUE, channel |-> "warp", isDefault |-> TRUE]
     ELSE NoModel]

IdleModels ==
  /\ storeMode = "redis"
  /\ models = SeededModels
  /\ modelOp = NoModelOp
  /\ clearFailed = FALSE

ModelFrame == UNCHANGED <<coreVars, limVars, dedupVars, jwtVars, warpVars, storeMode>>

\* Store.CreateModel with s.models == nil
CreateModelSql(m) ==
  /\ storeMode = "sqlite"
  /\ m.id = 0 => MaxID(models) < MaxModels
  /\ \E execOk \in BOOLEAN :
       /\ models' = SqlCreateModel(models, m, execOk)
       /\ clearFailed' = (clearFailed \/ (m.isDefault /\ ~execOk))
  /\ UNCHANGED modelOp
  /\ ModelFrame

\* Store.UpdateModel with s.models == nil
UpdateModelSql(m) ==
  /\ storeMode = "sqlite"
  /\ m.id # 0
  /\ \E execOk \in BOOLEAN :
       /\ models' = SqlUpdateModel(models, m, execOk)
       /\ clearFailed' = (clearFailed \/ (m.isDefault /\ ~execOk))
  /\ UNCHANGED modelOp
  /\ ModelFrame

\* Store.DeleteModel, either store
DeleteModelCall(id) ==
  /\ modelOp.kind = "none"
  /\ models' = DeleteModel(models, id)
  /\ UNCHANGED <<modelOp, clearFailed>>
  /\ ModelFrame

\* Store.CreateModel / Store.UpdateModel with s.models set: for a default model
\* s.models.ListModels() is called, and when it returns no error the other
\* defaults of the channel are the ones to clear
ModelOpBegin(kind, m) ==
  /\ storeMode = "redis"
  /\ modelOp.kind = "none"
  /\ kind = "update" => m.id # 0
  /\ (kind = "create" /\ m.id = 0) => Present(models) # ModelIDs
  /\ \E listed \in BOOLEAN :
       /\ modelOp' =
            [kind |-> kind, m |-> m,
             todo |-> IF m.isDefault /\ listed
                        THEN {id \in Present(models) :
                                /\ models[id].channel = m.channel
                                /\ models[id].isDefault
                                /\ kind = "update" => id # m.id}
                        ELSE {}]
       /\ clearFailed' = (clearFailed \/ (m.isDefault /\ ~listed))
  /\ UNCHANGED models
  /\ ModelFrame

\* other.IsDefault = false; s.models.UpdateModel(other), its error dropped
ModelOpClear(id) ==
  /\ modelOp.kind # "none"
  /\ id \in modelOp.todo
  /\ \E updated \in BOOLEAN :
       /\ models' = IF updated THEN [models EXCEPT ![id].isDefault = FALSE] ELSE models
       /\ clearFailed' = (clearFailed \/ ~updated)
  /\ modelOp' = [modelOp EXCEPT !.todo = @ \ {id}]
  /\ ModelFrame

\* return s.models.CreateModel(m) / s.models.UpdateModel(m): the store writes
\* the model (under a new id when the id is empty) or returns an error
ModelOpFinish ==
  /\ modelOp.kind # "none"
  /\ modelOp.todo = {}
  /\ \/ UNCHANGED models
     \/ /\ modelOp.m.id # 0
        /\ models' = [models EXCEPT ![modelOp.m.id] = Row(modelOp.m)]
     \/ /\ modelOp.m.id = 0
        /\ \E id \in ModelIDs \ Present(models) :
             models' = [models EXCEPT ![id] = Row(modelOp.m)]
  /\ modelOp' = NoModelOp
  /\ UNCHANGED clearFailed
  /\ ModelFrame

\* -------------------------------------------------------- topic classifier
NoTopicResult == [done |-> FALSE, isNewTopic |-> FALSE, title |-> <<>>]

IdleTopic ==
  /\ topicIn = <<>>
  /\ topicOut = NoTopicResult

\* ------------------------------------------------------ upstream dispatcher
IdleSSE ==
  /\ sseStream = <<>>
  /\ sseTerminated = TRUE
  /\ ssePos = 1
  /\ sseBuffer = <<>>
  /\ sseDelivered = <<>>
  /\ sseRet = ""

\* ------------------------------------------------------- token-count cache
NoMemGet == [pc |-> "idle", key |-> ""]
NoMemPut == [pc |-> "idle", key |-> "", expiresAt |-> ZeroTime, last |-> "none"]

IdleMem ==
  /\ memTTL = 0
  /\ memMaxEntries = 0
  /\ memItems = EmptyMap
  /\ memSizeBytes = 0
  /\ memNow = 0
  /\ memGet = NoMemGet
  /\ memPut = NoMemPut

IdleLoop ==
  /\ loopMode = "proxy"
  /\ loopMaxRetries = 0
  /\ loopPc = "finalized"
  /\ loopRetriesRemaining = 0
  /\ loopResults = 0
  /\ loopNeedsFollowup = FALSE
  /\ loopHasReturn = TRUE
  /\ loopCtxErr = FALSE
  /\ loopEvents = 0

IdleExt ==
  /\ IdleTopic
  /\ IdleSSE
  /\ IdleMem
  /\ IdleLoop

IdleAux ==
  /\ IdleExt
  /\ IdleLimiter
  /\ IdleDedup
  /\ IdleTokenCache
  /\ IdleWarp
  /\ IdleModels

\* atomic.AddInt64(&cl.totalReqs, 1); context.WithTimeout
LimitEnter(r) ==
  /\ req[r].pc = "idle"
  /\ totalReqs' = totalReqs + 1
  /\ req' = [req EXCEPT ![r].pc = "acquire"]
  /\ UNCHANGED <<baseVars, maxConcurrent, semCur, activeCount, rejectedReqs>>

AcquireOkNoLimit(r) ==
  /\ req[r].pc = "acquire"
  /\ semCur' = semCur + 1
  /\ req' = [req EXCEPT ![r].pc = "acquired"]
  /\ UNCHANGED <<baseVars, maxConcurrent, activeCount, totalReqs, rejectedReqs>>

\* cl.sem.Acquire(ctx, 1) returns nil: a slot was free
AcquireOk(r) ==
  /\ req[r].pc = "acquire"
  /\ semCur + 1 <= maxConcurrent
  /\ semCur' = semCur + 1
  /\ req' = [req EXCEPT ![r].pc = "acquired"]
  /\ UNCHANGED <<baseVars, maxConcurrent, activeCount, totalReqs, rejectedReqs>>

AcquireFailNoCount(r) ==
  /\ req[r].pc = "acquire"
  /\ req' = [req EXCEPT ![r].pc = "done", ![r].status = 503, ![r].body = BusyBody]
  /\ UNCHANGED <<baseVars, maxConcurrent, semCur, activeCount, totalReqs,
                 rejectedReqs>>

\* cl.sem.Acquire(ctx, 1) returns an error: the context of the request, with
\* its timeout, was done first
AcquireFail(r) ==
  /\ req[r].pc = "acquire"
  /\ rejectedReqs' = rejectedReqs + 1
  /\ req' = [req EXCEPT ![r].pc = "done", ![r].status = 503, ![r].body = BusyBody]
  /\ UNCHANGED <<baseVars, maxConcurrent, semCur, activeCount, totalReqs>>

\* atomic.AddInt64(&cl.activeCount, 1); the deferred release is registered and
\* next.ServeHTTP is entered
ServeHTTP(r) ==
  /\ req[r].pc = "acquired"
  /\ activeCount' = activeCount + 1
  /\ req' = [req EXCEPT ![r].pc = "serving", ![r].invoked = @ + 1]
  /\ UNCHANGED <<baseVars, maxConcurrent, semCur, totalReqs, rejectedReqs>>

\* the handler returns
HandlerReturn(r) ==
  /\ req[r].pc = "serving"
  /\ req' = [req EXCEPT ![r].pc = "release", ![r].status = 200]
  /\ UNCHANGED <<baseVars, maxConcurrent, semCur, activeCount, totalReqs,
                 rejectedReqs>>

HandlerPanicNoRelease(r) ==
  /\ req[r].pc = "serving"
  /\ req' = [req EXCEPT ![r].pc = "done", ![r].panicked = TRUE]
  /\ UNCHANGED <<baseVars, maxConcurrent, semCur, activeCount, totalReqs,
                 rejectedReqs>>

\* the handler panics: the deferred functions run while the panic unwinds
HandlerPanic(r) ==
  /\ req[r].pc = "serving"
  /\ req' = [req EXCEPT ![r].pc = "release", ![r].panicked = TRUE]
  /\ UNCHANGED <<baseVars, maxConcurrent, semCur, activeCount, totalReqs,
                 rejectedReqs>>

\* deferred: cl.sem.Release(1)
SemRelease(r) ==
  /\ req[r].pc = "release"
  /\ semCur' = semCur - 1
  /\ req' = [req EXCEPT ![r].pc = "decrement", ![r].released = @ + 1]
  /\ UNCHANGED <<baseVars, maxConcurrent, activeCount, totalReqs, rejectedReqs>>

ActiveDecrementSkipped(r) ==
  /\ req[r].pc = "decrement"
  /\ req' = [req EXCEPT ![r].pc = "done"]
  /\ UNCHANGED <<baseVars, maxConcurrent, semCur, activeCount, totalReqs,
                 rejectedReqs>>

\* deferred: atomic.AddInt64(&cl.activeCount, -1); Limit's function is left
ActiveDecrement(r) ==
  /\ req[r].pc = "decrement"
  /\ activeCount' = activeCount - 1
  /\ req' = [req EXCEPT ![r].pc = "done"]
  /\ UNCHANGED <<baseVars, maxConcurrent, semCur, totalReqs, rejectedReqs>>

\* the timer of context.WithTimeout(r.Context(), cl.timeout) fires after the
\* slot was acquired: ctx, which next.ServeHTTP gets as the context of the
\* request, is done
CtxTimeout(r) ==
  /\ req[r].pc \in {"acquired", "serving"}
  /\ ~req[r].ctxDone
  /\ req' = [req EXCEPT ![r].ctxDone = TRUE]
  /\ UNCHANGED <<baseVars, maxConcurrent, semCur, activeCount, totalReqs,
                 rejectedReqs>>

InitHandler(start) ==
  /\ isStream = TRUE
  /\ outputTokenMode \in OutputTokenModes
  /\ retryDelay \in RetryDelays
  /\ pc = start
  /\ ctxCancelled = FALSE
  /\ retriesRemaining = 0
  /\ currentAccount = NoAccount
  /\ deferredRelease = NoAccount
  /\ failedAccountIDs = <<>>
  /\ httpStatus = 0
  /\ mu = "free"
  /\ outq = <<>>
  /\ wire = <<>>
  /\ hasReturn = FALSE
  /\ kaState = "off"
  /\ keepAliveStop = FALSE
  /\ blockIndex = -1
  /\ toolBlocks = EmptyMap
  /\ toolInputNames = EmptyMap
  /\ toolInputBuffers = EmptyMap
  /\ toolInputHadDelta = EmptyMap
  /\ toolCallHandled = {}
  /\ currentToolInputID = ""
  /\ toolCallCount = 0
  /\ pendingToolCalls = <<>>
  /\ finalStopReason = ""
  /\ contentBlocks = <<>>
  /\ currentTextIndex = -1
  /\ textBlockBuilders = EmptyMap
  /\ responseText = 0
  /\ outputTokens = 0
  /\ outputBuilder = 0
  /\ useUpstreamUsage = FALSE
  /\ internalToolResults = <<>>
  /\ internalNeedsFollowup = FALSE
  /\ chatHistory = <<>>
  /\ upstreamMessages = <<>>
  /\ nEvents = 0
  /\ attempts = 0
  /\ finishCalls = 0
  /\ selectLog = {}
  /\ releaseLog = {}
  /\ acquireLog = {}
  /\ seenToolIds = {}
  /\ upBlock = "none"
  /\ upOpen = {}
  /\ upOpened = {}
  /\ upCalled = {}
  /\ upstreamFinish = ""
  /\ roundFinish = ""
  /\ kaCount = 0
  /\ clock = 0
  /\ notBefore = 0
  /\ roundAttempts = 0
  /\ selectErr = ""

\* one streaming request through HandleMessages that ends before the first tick
\* of the keep-alive ticker (keepAliveInterval is 15 s)
Init ==
  /\ activeConns = [id \in AccountIDs |-> 0]
  /\ InitHandler("entry")
  /\ IdleAux
  /\ toolCallMode \in ToolCallModes
  /\ maxRetries = MaxRetriesCfg
  /\ evLimit = MaxEvents
  /\ kaLimit = 0
  /\ channel = TargetChannel
  /\ retryAfters = {0}
  /\ IdleBalancer
  /\ IdleExecutor

NextHandler ==
  \/ Entry
  \/ Cancel
  \/ StartRound
  \/ SendOk
  \/ SendErr
  \/ BackoffElapsed
  \/ BackoffCancelled
  \/ MainAfterDone
  \/ Return
  \/ WriteBegin
  \/ WriteEnd
  \/ OnEventAfterReturn
  \/ OnReasoningStart
  \/ OnReasoningDelta
  \/ OnReasoningEnd
  \/ OnTextStart
  \/ OnTextDelta
  \/ OnTextEnd
  \/ OnToolInputStart
  \/ OnToolInputDelta
  \/ OnToolInputEnd
  \/ OnToolCall
  \/ OnTokensUsed
  \/ OnFinish

Next == NextHandler

Spec == Init /\ [][Next]_vars

\* one streaming request during which the keep-alive ticker fires
InitKA ==
  /\ activeConns = [id \in AccountIDs |-> 0]
  /\ InitHandler("entry")
  /\ IdleAux
  /\ toolCallMode \in ToolCallModes
  /\ maxRetries = MaxRetriesCfg
  /\ evLimit = MaxEventsKA
  /\ kaLimit = MaxKeepAlives
  /\ channel = TargetChannel
  /\ retryAfters = {0}
  /\ IdleBalancer
  /\ IdleExecutor

NextKA ==
  \/ NextHandler
  \/ KeepAliveTick
  \/ KeepAliveEnd
  \/ KeepAliveExit

SpecKA == InitKA /\ [][NextKA]_vars

\* one streaming request whose upstream attempts fail: any configured max_retries,
\* a model of either channel, failures that carry Retry-After
InitRetry ==
  /\ activeConns = [id \in AccountIDs |-> 0]
  /\ InitHandler("entry")
  /\ IdleAux
  /\ toolCallMode \in {"proxy", "auto"}
  /\ maxRetries \in -1..MaxRetriesRetry
  /\ evLimit = MaxEventsRetry
  /\ kaLimit = 0
  /\ channel \in Channels
  /\ retryAfters = RetryAfterHeaders
  /\ IdleBalancer
  /\ IdleExecutor

SpecRetry == InitRetry /\ [][NextHandler]_vars

\* one streaming request whose tool calls are executed by the proxy itself
InitInternal ==
  /\ activeConns = [id \in AccountIDs |-> 0]
  /\ InitHandler("entry")
  /\ IdleAux
  /\ toolCallMode \in {"internal", "auto"}
  /\ maxRetries = MaxRetriesCfg
  /\ evLimit = MaxEvents
  /\ kaLimit = 0
  /\ channel = TargetChannel
  /\ retryAfters = {0}
  /\ IdleBalancer
  /\ IdleExecutor

SpecInternal == InitInternal /\ [][NextHandler]_vars

\* the load balancer under arbitrary AcquireConnection / ReleaseConnection calls
LBAcquire ==
  \E id \in AccountIDs :
    /\ activeConns[id] < MaxConns
    /\ activeConns' = AcquireConnection(activeConns, id)
    /\ acquireLog' = acquireLog \cup {id}
    /\ UNCHANGED <<cfgVars, lbcVars, execVars, auxVars, retryVars, currentAccount,
                   deferredRelease, failedAccountIDs,
                   selectLog, releaseLog, ctlVars, kaVars, toolVars, textVars, tokVars,
                   intVars, finVars, mu, wire, obsVars>>

LBRelease ==
  \E id \in AccountIDs :
    /\ activeConns' = ReleaseConnection(activeConns, id)
    /\ releaseLog' = releaseLog \cup {id}
    /\ UNCHANGED <<cfgVars, lbcVars, execVars, auxVars, retryVars, currentAccount,
                   deferredRelease, failedAccountIDs,
                   selectLog, acquireLog, ctlVars, kaVars, toolVars, textVars, tokVars,
                   intVars, finVars, mu, wire, obsVars>>

InitLB ==
  /\ activeConns = [id \in AccountIDs |-> 0]
  /\ InitHandler("off")
  /\ IdleAux
  /\ toolCallMode = "proxy"
  /\ maxRetries = 0
  /\ evLimit = 0
  /\ kaLimit = 0
  /\ channel = TargetChannel
  /\ retryAfters = {0}
  /\ IdleBalancer
  /\ IdleExecutor

NextLB == LBAcquire \/ LBRelease

SpecLB == InitLB /\ [][NextLB]_vars

\* one tool call in mode internal, for every command of up to MaxTokens words
CommandsUpTo(n) == UNION {[1..k -> ToolTokens] : k \in 0..n}

InitTool ==
  /\ activeConns = [id \in AccountIDs |-> 0]
  /\ InitHandler("off")
  /\ IdleAux
  /\ toolCallMode = "internal"
  /\ maxRetries = 0
  /\ evLimit = 0
  /\ kaLimit = 0
  /\ channel = TargetChannel
  /\ retryAfters = {0}
  /\ IdleBalancer
  /\ toolCommand \in CommandsUpTo(MaxTokens)
  /\ toolResult = NoToolResult

NextTool == ExecuteSafeTool

SpecTool == InitTool /\ [][NextTool]_vars

\* one caller of the load balancer over every small accounts table: any weights,
\* agent modes, enabled flags and connection counts, any channel and exclusion
InitSelect ==
  /\ activeConns \in [AccountIDs -> 0..MaxConnsSel]
  /\ InitHandler("off")
  /\ IdleAux
  /\ toolCallMode = "proxy"
  /\ maxRetries = 0
  /\ evLimit = 0
  /\ kaLimit = 0
  /\ channel = TargetChannel
  /\ retryAfters = {0}
  /\ store \in [AccountIDs -> [enabled : BOOLEAN, weight : Weights,
                                agentMode : AgentModes]]
  /\ cachedAccounts = <<>>
  /\ cacheExpires = 0
  /\ cacheFetch = [at |-> 0, enabled |-> {}]
  /\ sel = [g \in Callers |-> IdleCall]
  /\ selInputs = [g \in Callers |->
                    IF g = 1 THEN [exclude : SUBSET AccountIDs, ch : SelectChannels]
                             ELSE {}]
  /\ clockLimit = 0
  /\ IdleExecutor

NextSelect ==
  \E g \in Callers :
    \/ SelCall(g)
    \/ SelCheck(g)
    \/ SelFetch(g)
    \/ SelWrite(g)
    \/ SelReturn(g)

SpecSelect == InitSelect /\ [][NextSelect]_vars

\* concurrent callers of the load balancer while time passes and an admin
\* enables and disables accounts
InitCache ==
  /\ activeConns = [id \in AccountIDs |-> 0]
  /\ InitHandler("off")
  /\ IdleAux
  /\ toolCallMode = "proxy"
  /\ maxRetries = 0
  /\ evLimit = 0
  /\ kaLimit = 0
  /\ channel = TargetChannel
  /\ retryAfters = {0}
  /\ store = [i \in AccountIDs |->
               [enabled |-> TRUE, weight |-> Catalog[i].weight,
                agentMode |-> Catalog[i].agentMode]]
  /\ cachedAccounts = <<>>
  /\ cacheExpires = 0
  /\ cacheFetch = [at |-> 0, enabled |-> {}]
  /\ sel = [g \in Callers |-> IdleCall]
  /\ selInputs = [g \in Callers |-> {[exclude |-> {}, ch |-> ""]}]
  /\ clockLimit = MaxClock
  /\ IdleExecutor

NextCache ==
  \/ \E g \in Callers :
       \/ SelCall(g)
       \/ SelCheck(g)
       \/ SelFetch(g)
       \/ SelWrite(g)
       \/ SelReturn(g)
  \/ AdminSetEnabled
  \/ Tick

SpecCache == InitCache /\ [][NextCache]_vars

\* the state of everything but the part a specification is about
IdleCore ==
  /\ activeConns = [id \in AccountIDs |-> 0]
  /\ InitHandler("off")
  /\ toolCallMode = "proxy"
  /\ maxRetries = 0
  /\ evLimit = 0
  /\ kaLimit = 0
  /\ channel = TargetChannel
  /\ retryAfters = {0}
  /\ IdleBalancer
  /\ IdleExecutor

\* the state of everything that is not part of the specifications below
IdleOld ==
  /\ IdleCore
  /\ IdleLimiter
  /\ IdleDedup
  /\ IdleTokenCache
  /\ IdleWarp
  /\ IdleModels

\* MaxRequests concurrent requests through ConcurrencyLimiter.Limit, for every
\* configured limit
InitLimiter ==
  /\ IdleCore
  /\ IdleExt
  /\ \E configured \in LimitConfigs : maxConcurrent = NewConcurrencyLimiter(configured)
  /\ semCur = 0
  /\ activeCount = 0
  /\ totalReqs = 0
  /\ rejectedReqs = 0
  /\ req = [r \in Requests |-> NewRequest]
  /\ IdleDedup
  /\ IdleTokenCache
  /\ IdleWarp
  /\ IdleModels

NextLimiter ==
  \E r \in Requests :
    \/ LimitEnter(r)
    \/ AcquireOk(r)
    \/ AcquireFail(r)
    \/ ServeHTTP(r)
    \/ HandlerReturn(r)
    \/ HandlerPanic(r)
    \/ SemRelease(r)
    \/ ActiveDecrement(r)
    \/ CtxTimeout(r)

SpecLimiter == InitLimiter /\ [][NextLimiter]_vars

\* arrivals, completions, sweeps and clock ticks of the deduplicator
InitDedup ==
  /\ IdleCore
  /\ IdleExt
  /\ IdleLimiter
  /\ IdleDedup
  /\ IdleTokenCache
  /\ IdleWarp
  /\ IdleModels

NextDedup ==
  \/ \E fp \in Fingerprints : RegisterRequest(fp)
  \/ \E fp \in Fingerprints : FinishRequest(fp)
  \/ CleanupRecent
  \/ DedupTick

SpecDedup == InitDedup /\ [][NextDedup]_vars

\* goroutines inside GetToken at the same time, with the clock moving
InitTokenCache ==
  /\ IdleCore
  /\ IdleExt
  /\ IdleLimiter
  /\ IdleDedup
  /\ IdleTokenCache
  /\ IdleWarp
  /\ IdleModels

NextTokenCache ==
  \/ \E g \in TokenCallers, sid \in SessionIDs : GetCachedTokenRead(g, sid)
  \/ \E g \in TokenCallers : GetCachedTokenCheck(g)
  \/ \E g \in TokenCallers, jwt \in TokenInputs : SetCachedToken(g, jwt)
  \/ \E g \in TokenCallers : GetTokenReturn(g)
  \/ TokenTick

SpecTokenCache == InitTokenCache /\ [][NextTokenCache]_vars

\* the lists of one to MaxMessages messages
RECURSIVE MessageLists(_)
MessageLists(n) ==
  IF n = 0 THEN {<<>>}
  ELSE LET shorter == MessageLists(n - 1) IN
    shorter \cup {Append(l, m) : l \in {x \in shorter : Len(x) = n - 1},
                                 m \in WarpMessages}

\* enforceWarpBudget on every prompt size, message list and max_tokens
InitWarp ==
  /\ IdleCore
  /\ IdleExt
  /\ IdleLimiter
  /\ IdleDedup
  /\ IdleTokenCache
  /\ warpIn \in [promptTokens : WarpPromptTokens,
                  messages : MessageLists(MaxMessages) \ {<<>>},
                  maxTokens : WarpMaxTokens]
  /\ warpOut = NoWarpResult
  /\ IdleModels

NextWarp == EnforceWarpBudget

SpecWarp == InitWarp /\ [][NextWarp]_vars

\* the admin creates, updates and deletes models, one call after the other, on
\* either store, from an empty or a seeded catalog
InitModels ==
  /\ IdleCore
  /\ IdleExt
  /\ IdleLimiter
  /\ IdleDedup
  /\ IdleTokenCache
  /\ IdleWarp
  /\ storeMode \in StoreModes
  /\ models \in {SeededModels, [id \in ModelIDs |-> NoModel]}
  /\ modelOp = NoModelOp
  /\ clearFailed = FALSE

NextModels ==
  \/ \E m \in ModelInputs : CreateModelSql(m)
  \/ \E m \in ModelInputs : UpdateModelSql(m)
  \/ \E id \in ModelIDs : DeleteModelCall(id)
  \/ \E kind \in {"create", "update"}, m \in ModelInputs : ModelOpBegin(kind, m)
  \/ \E id \in ModelIDs : ModelOpClear(id)
  \/ ModelOpFinish

SpecModels == InitModels /\ [][NextModels]_vars

\* ------------------------------------------------------------------ claims
\* the frames on the wire, in the order their first bytes were written
\* the frames the client has received (or is receiving) are the "head" chunks of
\* wire, in order
IsSent(i, ev) == wire[i].part = "head" /\ wire[i].f.ev = ev
IsToolUseStart(i) == IsSent(i, "content_block_start") /\ wire[i].f.btype = "tool_use"
IsContentBlock(i) ==
  /\ wire[i].part = "head"
  /\ wire[i].f.ev \in {"content_block_start", "content_block_delta", "content_block_stop"}
Wire == 1..Len(wire)
ToolUseBefore(i) == \E j \in 1..(i - 1) : IsToolUseStart(j)
BlockStarts ==
  SelectSeq(wire, LAMBDA c : c.part = "head" /\ c.f.ev = "content_block_start")

\* C1: when HandleMessages has returned, every account the load balancer selected
\* for the request (first attempt or failover) has been released, and
\* active_connections[id] = 0 for every account id.
C1_SelectedAccountsReleased ==
  pc = "returned" =>
    /\ selectLog \subseteq releaseLog
    /\ \A id \in AccountIDs : activeConns[id] = 0

\* C2: while an upstream call of the request is in flight against account X (first
\* attempt or retry after failover), the request is counted in
\* active_connections[X]: Acquire(X) has happened and Release(X) has not.
C2_InFlightIsCounted ==
  (pc = "send" /\ currentAccount # NoAccount) =>
    /\ currentAccount \in acquireLog \ releaseLog
    /\ activeConns[currentAccount] >= 1

\* C3: active_connections[id] >= 0 for every account id, in every state the load
\* balancer reaches by AcquireConnection and ReleaseConnection calls in any order,
\* a ReleaseConnection without a matching AcquireConnection included.
C3_ActiveConnsNonNegative ==
  \A id \in AccountIDs : activeConns[id] >= 0

\* a ReleaseConnection(id) was called although no AcquireConnection(id) ever was
C3_Witness ==
  \E id \in AccountIDs :
    /\ id \in releaseLog
    /\ id \notin acquireLog
    /\ activeConns[id] = 0
    /\ \E other \in AccountIDs : activeConns[other] > 0

\* C4: the indices of the content_block_start frames of one response are 0, 1, 2,
\* ... in the order sent (no index is started twice), and every content_block_delta
\* and content_block_stop carries an index that an earlier content_block_start
\* carried.
C4_BlockIndicesContiguous ==
  /\ \A k \in 1..Len(BlockStarts) : BlockStarts[k].f.index = k - 1
  /\ \A i \in Wire :
       (IsSent(i, "content_block_delta") \/ IsSent(i, "content_block_stop")) =>
         \E j \in 1..(i - 1) : /\ IsSent(j, "content_block_start")
                               /\ wire[j].f.index = wire[i].f.index

ToolUseStartsOf(id) == {i \in Wire : IsToolUseStart(i) /\ wire[i].f.id = id}

\* C5: in proxy mode, for each upstream tool id observed (with a declared tool
\* name) the client receives exactly one tool_use block with that id: never two,
\* and one by the time the response is complete.
C5_ExactlyOneToolUse ==
  toolCallMode = "proxy" =>
    \A id \in seenToolIds :
      /\ Cardinality(ToolUseStartsOf(id)) <= 1
      /\ pc = "returned" => Cardinality(ToolUseStartsOf(id)) = 1

\* C6: if a tool_use block was sent to the client, the stop_reason of message_delta
\* is tool_use.
C6_ToolUseImpliesStopToolUse ==
  \A i \in Wire :
    (IsSent(i, "message_delta") /\ ToolUseBefore(i)) => wire[i].f.stop = "tool_use"

\* C7: if no tool_use block was sent to the client, the stop_reason of
\* message_delta is end_turn, also when the upstream finished with tool-calls.
C7_NoToolUseImpliesEndTurn ==
  \A i \in Wire :
    (IsSent(i, "message_delta") /\ ~ToolUseBefore(i)) => wire[i].f.stop = "end_turn"

\* the upstream finished with tool-calls, no tool_use block was sent, and
\* message_delta went out
C7_Witness ==
  /\ upstreamFinish = "tool-calls"
  /\ \E i \in Wire : IsSent(i, "message_delta") /\ ~ToolUseBefore(i)

\* C8: a streaming response has at most one message_start; it is on the wire, with
\* output_tokens = 0, once the first upstream attempt has started, and every
\* content_block frame comes after it.
C8_MessageStartOnce ==
  /\ \A i, j \in Wire :
       (IsSent(i, "message_start") /\ IsSent(j, "message_start")) => i = j
  /\ attempts >= 1 => \E i \in Wire : IsSent(i, "message_start")
  /\ \A i \in Wire : IsSent(i, "message_start") => wire[i].f.out = 0
  /\ \A j \in Wire :
       IsContentBlock(j) => \E i \in 1..(j - 1) : IsSent(i, "message_start")

\* after an internal tool round and a retry, content blocks are on the wire
C8_Witness ==
  /\ attempts >= 3
  /\ Len(chatHistory) > 0
  /\ failedAccountIDs # <<>>
  /\ \E j \in Wire : IsContentBlock(j)

\* C9: message_delta and message_stop are written at most once each, nothing but
\* message_stop follows message_delta (no keep-alive, no content_block frame),
\* message_stop directly follows message_delta, and a streaming response that has
\* returned has both.
C9_FinalFramesOnce ==
  /\ \A i, j \in Wire :
       (IsSent(i, "message_delta") /\ IsSent(j, "message_delta")) => i = j
  /\ \A i, j \in Wire :
       (IsSent(i, "message_stop") /\ IsSent(j, "message_stop")) => i = j
  /\ \A i \in Wire :
       IsSent(i, "message_delta") =>
         \A j \in (i + 1)..Len(wire) :
           wire[j].part = "head" => wire[j].f.ev = "message_stop"
  /\ \A j \in Wire :
       IsSent(j, "message_stop") => (j > 2 /\ IsSent(j - 2, "message_delta"))
  /\ (pc = "returned" /\ httpStatus = 200) =>
       /\ \E i \in Wire : IsSent(i, "message_delta")
       /\ \E i \in Wire : IsSent(i, "message_stop")

\* the response is complete, finalization was requested twice, and a keep-alive
\* tick that came after finalization began wrote nothing
C9_Witness ==
  /\ pc = "returned"
  /\ httpStatus = 200
  /\ finishCalls >= 2
  /\ kaCount >= 1
  /\ \A i \in Wire : ~IsSent(i, "keepalive")

\* C10: the keep-alive goroutine and the handler goroutine never write at the same
\* time: every frame's bytes are contiguous on the wire.
C10_FramesContiguous ==
  /\ ~(mu = "ev" /\ kaState = "writing")
  /\ \A i \in Wire :
       /\ wire[i].part = "head" =>
            \/ i = Len(wire)
            \/ (wire[i + 1].part = "tail" /\ wire[i + 1].f = wire[i].f)
       /\ wire[i].part = "tail" =>
            i > 1 /\ wire[i - 1].part = "head" /\ wire[i - 1].f = wire[i].f

\* a keep-alive comment was written between two event frames
C10_Witness ==
  \E i, j, k \in Wire :
    /\ i < j /\ j < k
    /\ IsSent(i, "message_start")
    /\ IsSent(j, "keepalive")
    /\ IsContentBlock(k)

\* ------------------------------------------------------- retries and failover
\* accounts of the catalog that serve the request's channel
ChannelAccounts ==
  {i \in DOMAIN Catalog : channel = "" \/ EqualFold(Catalog[i].agentMode, channel)}

ConnsUntouched ==
  /\ acquireLog = {}
  /\ \A id \in AccountIDs : activeConns[id] = 0

\* C11: a round makes at most max_retries + 1 upstream attempts (a negative
\* max_retries counts as 0), and an attempt after the first of its round goes to
\* an account that is not among the accounts that failed for this request
C11_RetriesBoundedAndFailover ==
  /\ roundAttempts <= (IF maxRetries < 0 THEN 0 ELSE maxRetries) + 1
  /\ (pc = "send" /\ roundAttempts > 1) =>
       currentAccount \notin SeqToSet(failedAccountIDs)

\* the second attempt of a round with max_retries = 1 failed too: no retry is
\* left and the request ends
C11_Witness ==
  /\ pc = "done"
  /\ maxRetries = 1
  /\ roundAttempts = 2
  /\ retriesRemaining = 0
  /\ ~ctxCancelled
  /\ Len(failedAccountIDs) = 1
  /\ selectErr = ""

\* C12: a retry that follows a failure with Retry-After: N is not issued before
\* N seconds have elapsed since that failure
C12_RetryAfterHonored ==
  (pc = "send" /\ roundAttempts > 1) => clock >= notBefore

\* a request cancelled before the upstream finished its answer has returned
C13_CancelledStateOk ==
  (pc = "returned" /\ ctxCancelled /\ upstreamFinish = "") =>
    /\ hasReturn
    /\ finalStopReason = "end_turn"
    /\ deferredRelease \in releaseLog
    /\ \A id \in AccountIDs : activeConns[id] = 0

Returned(g) == sel[g].pc = "idle" /\ (sel[g].id # NoAccount \/ sel[g].err # "")

\* the accounts of the call's snapshot that survive its two filters
Survivors(g) ==
  {a \in SeqToSet(sel[g].accounts) :
     /\ a.id \notin sel[g].exclude
     /\ (sel[g].ch = "" \/ ToLower(a.agentMode) = ToLower(sel[g].ch))}

\* max(weight, 1)
ScoreWeight(a) == IF a.weight < 1 THEN 1 ELSE a.weight

\* C15: the account Select returns has a minimal active_connections /
\* max(weight, 1) among the survivors of the filters, and it comes before every
\* other survivor of the same score in the order weight descending, id ascending
C15_MinimalScoreFirstInOrder ==
  \A g \in Callers :
    (Returned(g) /\ sel[g].id # NoAccount) =>
      \E r \in Survivors(g) :
        /\ r.id = sel[g].id
        /\ \A a \in Survivors(g) \ {r} :
             /\ sel[g].conns[r.id] * ScoreWeight(a) <= sel[g].conns[a.id] * ScoreWeight(r)
             /\ (sel[g].conns[r.id] * ScoreWeight(a) = sel[g].conns[a.id] * ScoreWeight(r)) =>
                  (r.weight > a.weight \/ (r.weight = a.weight /\ r.id < a.id))

\* two survivors of different weights and load tie on the score
C15_Witness ==
  \E g \in Callers :
    /\ Returned(g)
    /\ \E r, a \in Survivors(g) :
         /\ r.id = sel[g].id
         /\ a.id # r.id
         /\ r.weight > a.weight
         /\ a.weight > 0
         /\ sel[g].conns[a.id] > 0
         /\ sel[g].conns[r.id] * a.weight = sel[g].conns[a.id] * r.weight

\* C16: Select returns no excluded account and, for a non-empty channel, no
\* account of another agent mode (compared case-insensitively); it returns the
\* no-accounts error exactly when no account of the snapshot survives both filters
C16_FiltersRespected ==
  \A g \in Callers :
    (Returned(g) /\ sel[g].err # "store") =>
      /\ sel[g].id # NoAccount =>
           /\ sel[g].id \notin sel[g].exclude
           /\ \E a \in SeqToSet(sel[g].accounts) :
                /\ a.id = sel[g].id
                /\ (sel[g].ch # "" => ToLower(a.agentMode) = ToLower(sel[g].ch))
      /\ (sel[g].err = "no accounts") <=> (Survivors(g) = {})

\* an account is returned for channel orchids from a snapshot of two accounts, one
\* of which was excluded
C16_Witness ==
  \E g \in Callers :
    /\ Returned(g)
    /\ sel[g].id # NoAccount
    /\ sel[g].ch = "orchids"
    /\ sel[g].exclude # {}
    /\ Len(sel[g].accounts) = 2
    /\ sel[g].exclude \subseteq {a.id : a \in SeqToSet(sel[g].accounts)}

\* C17 (as stated): the account Select is about to return is enabled in the
\* accounts table at that moment
C17_SelectedIsEnabledNow ==
  \A g \in Callers :
    sel[g].pc = "select" =>
      LET id == SelectIn(sel[g].accounts, activeConns, sel[g].exclude, sel[g].ch, TRUE)
      IN id # NoAccount => store[id].enabled

\* C17 (as the code has it): the account Select returns was enabled in the
\* accounts table when the snapshot it was chosen from was read, and that read
\* happened less than cache_ttl before the call read the clock
C17_SelectedWasEnabledAtFetch ==
  \A g \in Callers :
    /\ (Returned(g) /\ sel[g].id # NoAccount) => sel[g].id \in sel[g].fetchEnabled
    /\ sel[g].pc = "select" => sel[g].now - sel[g].fetchedAt < CacheTTL

\* a cached snapshot gave an account that the admin had disabled in between
C17_Witness ==
  \E g \in Callers :
    /\ Returned(g)
    /\ sel[g].id # NoAccount
    /\ sel[g].fromCache
    /\ ~store[sel[g].id].enabled

\* C18: a read is served from the cached list only if it read the clock less
\* than cache_ttl after that list was fetched from the accounts table; a read at
\* or after fetch time + cache_ttl goes to the table
C18_CacheServedWithinTTL ==
  \A g \in Callers :
    /\ (sel[g].pc = "select" /\ sel[g].fromCache) =>
         sel[g].now < sel[g].fetchedAt + CacheTTL
    /\ (sel[g].pc = "check" /\ Len(cachedAccounts) > 0
          /\ sel[g].now >= cacheFetch.at + CacheTTL) =>
         ~CacheValid(cachedAccounts, cacheExpires, sel[g].now)

\* while one goroutine is about to write its snapshot, another one, reading the
\* clock cache_ttl after the cached list was fetched, has gone to the table
C18_Witness ==
  \E g, h \in Callers :
    /\ g # h
    /\ sel[g].pc = "fetch"
    /\ sel[h].pc = "write"
    /\ Len(cachedAccounts) > 0
    /\ sel[g].now >= cacheFetch.at + CacheTTL

\* C19: when IncrementRequestCount fails, Select still returns the account it
\* chose
C19_IncrementBestEffort ==
  \A g \in Callers :
    (Returned(g) /\ ~sel[g].storeOk /\ Survivors(g) # {}) => sel[g].id # NoAccount

\* -------------------------------------------------------- local tool execution
\* the part of a command left of its first pipe
LeftOfPipe(command) == SplitPipe(command)[1]

\* find's expression in the whitelist: -maxdepth, -type and -name with a value,
\* -not -path with a pattern; extra: further words that count as whitelisted
RECURSIVE FindWhitelisted(_, _, _)
FindWhitelisted(args, i, extra) ==
  IF i > Len(args) THEN TRUE
  ELSE IF args[i] \in {"-maxdepth", "-type", "-name"}
    THEN i + 1 <= Len(args) /\ FindWhitelisted(args, i + 2, extra)
  ELSE IF args[i] = "-not"
    THEN i + 2 <= Len(args) /\ args[i + 1] = "-path"
         /\ FindWhitelisted(args, i + 3, extra)
  ELSE args[i] \in extra /\ FindWhitelisted(args, i + 1, extra)

\* pwd, ls with -a / -l flags and paths, find with an optional start path and a
\* whitelisted expression
LeftWhitelisted(left, extra) ==
  /\ Len(left) > 0
  /\ \/ left[1] = "pwd"
     \/ /\ left[1] = "ls"
        /\ \A i \in 2..Len(left) :
             HasDashPrefix(left[i]) => left[i] \in {"-a", "-l", "-la", "-al"}
     \/ /\ left[1] = "find"
        /\ LET args == Tail(left)
           IN IF Len(args) > 0 /\ ~HasDashPrefix(args[1])
                THEN FindWhitelisted(Tail(args), 1, extra)
                ELSE FindWhitelisted(args, 1, extra)

\* a whitelisted command, optionally followed by one "| head" suffix
Whitelisted(command, extra) ==
  LET parts == SplitPipe(command)
  IN /\ Len(parts) <= 2
     /\ LeftWhitelisted(parts[1], extra)
     /\ Len(parts) = 2 => (Len(parts[2]) > 0 /\ parts[2][1] = "head")

InProgress(r) == req[r].pc \notin {"idle", "done"}
Admitted(r) == req[r].invoked > 0
Rejected(r) == req[r].pc = "done" /\ req[r].invoked = 0

\* C21: at every moment at most concurrency_limit wrapped handlers are executing
C21_AtMostLimitHandlers ==
  Cardinality({r \in Requests : req[r].pc = "serving"}) <= maxConcurrent

\* as many handlers as the configured limit run while one more request waits
\* for a slot
C21_Witness ==
  /\ maxConcurrent \in 2..MaxLimit
  /\ Cardinality({r \in Requests : req[r].pc = "serving"}) = maxConcurrent
  /\ \E r \in Requests : req[r].pc = "acquire"

\* C22: a request that does not get a slot is answered with 503 and the body
\* "Request timeout or server busy", its handler is never invoked, and it adds
\* one to the rejected counter
C22_RejectedIs503 ==
  /\ \A r \in Requests :
       Rejected(r) =>
         /\ req[r].status = 503
         /\ req[r].body = "Request timeout or server busy"
         /\ req[r].released = 0
  /\ rejectedReqs = Cardinality({r \in Requests : Rejected(r)})
  /\ \A r \in Requests : Admitted(r) => req[r].status # 503

\* with a limit of 1, a second request was rejected while the first one was
\* still in its handler
C22_Witness ==
  /\ maxConcurrent = 1
  /\ rejectedReqs = 1
  /\ \E r, q \in Requests :
       /\ req[r].pc = "serving"
       /\ Rejected(q)
       /\ req[q].status = 503

\* C23: an admitted request releases its slot exactly once, whether its handler
\* returns or panics; when no request is in progress all slots are free, the
\* active counter is 0 and total = completed + rejected
C23_ReleasedOnceAndQuiescent ==
  /\ \A r \in Requests :
       /\ req[r].released <= 1
       /\ (req[r].pc = "done" /\ Admitted(r)) => req[r].released = 1
  /\ (\A r \in Requests : ~InProgress(r)) =>
       /\ semCur = 0
       /\ activeCount = 0
       /\ totalReqs = Cardinality({r \in Requests : req[r].pc = "done" /\ Admitted(r)})
                        + rejectedReqs

\* all requests are over: one returned, one panicked, one was rejected
C23_Witness ==
  /\ \A r \in Requests : req[r].pc = "done"
  /\ \E r, q, t \in Requests :
       /\ Admitted(r) /\ ~req[r].panicked
       /\ Admitted(q) /\ req[q].panicked
       /\ Rejected(t)

\* ------------------------------------------------------ request deduplicator
\* C24: registerRequest(fp) returns (false, false) for a fingerprint with no
\* live entry and records it as in flight; within the dedup window of an entry it
\* returns (true, true) while an original has not finished and (true, false)
\* after the originals finished
C24_RegisterResults ==
  dedupRet.op = "register" =>
    /\ ~dedupRet.live =>
         /\ ~dedupRet.dup /\ ~dedupRet.inFlight
         /\ recentRequests[dedupRet.fp].present
         /\ recentRequests[dedupRet.fp].inFlight > 0
         /\ recentRequests[dedupRet.fp].last = dedupNow
    /\ (dedupRet.live /\ dedupRet.holders > 0) =>
         dedupRet.dup /\ dedupRet.inFlight
    /\ (dedupRet.live /\ dedupRet.holders = 0) =>
         dedupRet.dup /\ ~dedupRet.inFlight

\* a registration within the window, after the original finished, returned
\* (true, false)
C24_Witness ==
  /\ dedupRet.op = "register"
  /\ dedupRet.live
  /\ dedupRet.holders = 0
  /\ dedupRet.dup
  /\ ~dedupRet.inFlight
  /\ dedupNow > recentRequests[dedupRet.fp].last

\* C25: a sweep removes exactly the entries with in_flight = 0 that were last
\* seen longer ago than the horizon; every other entry survives unchanged
C25_SweepRemovesExactlyExpired ==
  [][dedupRet'.op = "sweep" =>
       \A fp \in Fingerprints :
         recentRequests'[fp] =
           IF /\ recentRequests[fp].present
              /\ recentRequests[fp].inFlight = 0
              /\ dedupNow - recentRequests[fp].last > 2 * DuplicateWindow
             THEN NoRecent
             ELSE recentRequests[fp]]_vars

\* a sweep has just removed "old" and kept "k", which is older than the horizon
\* but still in flight
C25_Witness ==
  /\ dedupRet.op = "sweep"
  /\ ~recentRequests["old"].present
  /\ recentRequests["k"].present
  /\ recentRequests["k"].inFlight > 0
  /\ dedupNow - recentRequests["k"].last > 2 * DuplicateWindow

\* ------------------------------------------------------- session-token cache
\* C26 as stated: a token is returned only if an entry exists and
\* now < expires_at, every other lookup is a miss
C26_HitOnlyBeforeExpiry ==
  \A g \in TokenCallers :
    tokenCall[g].pc = "hit" =>
      tokenCall[g].entry.present /\ tokenCall[g].at < tokenCall[g].entry.expiresAt

\* C26: a lookup returns the token of the entry it read iff the session id is
\* not empty, an entry exists and now <= expires_at; every other lookup is a
\* miss, and a lookup that read an entry with now > expires_at leaves no entry
\* for the session
C26_HitUntilExpiry ==
  \A g \in TokenCallers :
    /\ tokenCall[g].pc = "hit" =>
         /\ tokenCall[g].sessionID # ""
         /\ tokenCall[g].entry.present
         /\ tokenCall[g].at <= tokenCall[g].entry.expiresAt
         /\ tokenCall[g].token = tokenCall[g].entry.token
         /\ ~tokenCall[g].evicted
    /\ tokenCall[g].pc = "miss" =>
         \/ tokenCall[g].sessionID = ""
         \/ ~tokenCall[g].entry.present
         \/ /\ tokenCall[g].at > tokenCall[g].entry.expiresAt
            /\ tokenCall[g].evicted

\* one lookup was served at the very second its entry expires, another one
\* read the clock later and evicted the entry
C26_Witness ==
  \E g, h \in TokenCallers :
    /\ tokenCall[g].pc = "hit"
    /\ tokenCall[g].at = tokenCall[g].entry.expiresAt
    /\ tokenCall[h].pc = "miss"
    /\ tokenCall[h].evicted
    /\ ~tokenCacheItems[tokenCall[h].sessionID].present

\* the call has just stored a token that is not empty for a session id that is
\* not empty
StoredBy(g) ==
  /\ tokenCall[g].pc = "fetched"
  /\ tokenCall[g].sessionID # ""
  /\ tokenCall[g].token # EmptyToken

\* C27 as stated: expires_at = exp - 30s whenever the payload decodes and
\* carries an exp claim
C27_ExpMinusSkewWheneverExp ==
  \A g \in TokenCallers :
    ( /\ StoredBy(g)
      /\ tokenCall[g].token.parts >= 2
      /\ tokenCall[g].token.payload = "json"
      /\ tokenCall[g].token.expKind = "number" ) =>
        tokenCall[g].entry.expiresAt = tokenCall[g].token.exp - 30

\* C27: storing a token records expires_at = exp - 30s when the payload decodes
\* and carries a numeric exp whose integer part is not 0 (exp is cut to whole
\* seconds), and now + 5min in every other case; an empty session id or an
\* empty token stores nothing
C27_StoredExpiry ==
  \A g \in TokenCallers :
    tokenCall[g].pc = "fetched" =>
      LET token == tokenCall[g].token IN
        /\ tokenCall[g].others
        /\ tokenCall[g].sessionID = "" => ~tokenCall[g].entry.present
        /\ StoredBy(g) =>
             /\ tokenCall[g].entry.present
             /\ tokenCall[g].entry.token = token
             /\ tokenCall[g].entry.expiresAt =
                  IF /\ token.parts >= 2
                     /\ token.payload = "json"
                     /\ token.expKind = "number"
                     /\ token.exp # 0
                    THEN token.exp - 30
                    ELSE tokenCall[g].at + 5 * 60

\* a token with exp 90 was stored after the clock had moved, it expires at 60;
\* the other call had an empty token and left the entry alone
C27_Witness ==
  \E g, h \in TokenCallers :
    /\ StoredBy(g)
    /\ tokenCall[g].at > 0
    /\ tokenCall[g].token.expKind = "number"
    /\ tokenCall[g].entry.expiresAt = 60
    /\ tokenCall[h].pc = "fetched"
    /\ tokenCall[h].sessionID # ""
    /\ tokenCall[h].token = EmptyToken
    /\ tokenCall[h].entry = tokenCall[g].entry

\* ------------------------------------------------------ internal tool follow-up
\* old followed by one assistant tool_use entry and one user tool_result entry
\* with the same id per result, in the order of results
AppendedPairs(old, new, results) ==
  /\ Len(new) = Len(old) + 2 * Len(results)
  /\ SubSeq(new, 1, Len(old)) = old
  /\ \A k \in 1..Len(results) :
       /\ new[Len(old) + 2 * k - 1] =
            [role |-> "assistant", type |-> "tool_use", id |-> results[k].id]
       /\ new[Len(old) + 2 * k] =
            [role |-> "user", type |-> "tool_result", id |-> results[k].id]

\* C28: the step that ends an internal tool turn appends to upstreamMessages and
\* to chatHistory, for every tool call executed in the turn and in the order of
\* execution, one assistant tool_use entry directly followed by one user
\* tool_result entry with that call's id, before the follow-up SendRequest; no
\* other step changes the two lists
C28_PairsAppendedBeforeFollowup ==
  [][IF pc = "send" /\ pc' = "start"
       THEN /\ internalToolResults # <<>>
            /\ AppendedPairs(upstreamMessages, upstreamMessages', internalToolResults)
            /\ AppendedPairs(chatHistory, chatHistory', internalToolResults)
       ELSE UNCHANGED <<upstreamMessages, chatHistory>>]_vars

\* in internal mode two tool calls were executed in one turn and the follow-up
\* request is out with both pairs
C28_Witness ==
  /\ toolCallMode = "internal"
  /\ pc = "send"
  /\ attempts >= 2
  /\ Len(chatHistory) = 4
  /\ chatHistory[1].id # chatHistory[3].id
  /\ upstreamMessages = chatHistory

\* ------------------------------------------------------------- warp budget
\* min(max_tokens, 12000), and 12000 when max_tokens <= 0
WarpBudget ==
  IF warpIn.maxTokens <= 0 \/ warpIn.maxTokens > 12000 THEN 12000
  ELSE warpIn.maxTokens

WithinBudget(messages) ==
  estimateWarpTokens(warpIn.promptTokens, messages) <= WarpBudget

\* C29: the result of enforceWarpBudget is the compressed list without its
\* first `dropped` messages; it contains the last user message (the last message
\* when there is none); every shorter drop would have left the total over the
\* budget min(max_tokens, 12000); and dropping stopped because the result is
\* within the budget or because its first message is the last user message
C29_DropsOldestUntilWithinBudget ==
  warpOut.done =>
    LET n == Len(warpIn.messages)
        d == warpOut.dropped
    IN /\ d \in 0..(n - 1)
       /\ warpOut.trimmed = SubSeq(warpIn.messages, d + 1, n)
       /\ (\E i \in 1..n : warpIn.messages[i].role = "user") =>
            \E i \in (d + 1)..n : warpIn.messages[i].role = "user"
       /\ \A k \in 0..(d - 1) : ~WithinBudget(SubSeq(warpIn.messages, k + 1, n))
       /\ \/ WithinBudget(warpOut.trimmed)
          \/ d = LastUser(warpIn.messages)

\* one message was dropped from a list of three under max_tokens = 6000, the
\* two that are left fit, and the last user message is the last one
C29_Witness ==
  /\ warpOut.done
  /\ warpIn.maxTokens = 6000
  /\ Len(warpIn.messages) = 3
  /\ warpOut.dropped = 1
  /\ warpIn.messages[3].role = "user"
  /\ WithinBudget(warpOut.trimmed)

\* ----------------------------------------------------------- model catalog
Defaults(ch) ==
  {id \in ModelIDs : models[id].present /\ models[id].channel = ch /\ models[id].isDefault}

\* C30: after any sequence of CreateModel, UpdateModel and DeleteModel calls at
\* most one model per channel is marked as default
C30_AtMostOneDefaultPerChannel ==
  \A ch \in Channels : Cardinality(Defaults(ch)) <= 1

\* at most one default per channel as long as no store call that had to clear
\* the other defaults has failed
AtMostOneDefaultUnlessClearFailed ==
  ~clearFailed => \A ch \in Channels : Cardinality(Defaults(ch)) <= 1

\* -------------------------------------------------------- topic classifier
\* A text is the sequence of its characters. The opening and the closing tag of
\* a system reminder are one element each.
StartTag == "<system-reminder>"
EndTag == "</system-reminder>"

\* unicode.IsSpace, unicode.IsPunct and unicode.ToLower on the characters in use
IsSpace(c) == c \in {" ", "\n"}
IsPunct(c) == c \in {"?", "!"}
ToLowerRune(c) == IF c = "H" THEN "h" ELSE c
ToLowerText(t) == [i \in 1..Len(t) |-> ToLowerRune(t[i])]

RECURSIVE TrimLeft(_)
TrimLeft(t) == IF t # <<>> /\ IsSpace(Head(t)) THEN TrimLeft(Tail(t)) ELSE t
RECURSIVE TrimRight(_)
TrimRight(t) ==
  IF t # <<>> /\ IsSpace(t[Len(t)]) THEN TrimRight(SubSeq(t, 1, Len(t) - 1)) ELSE t
\* strings.TrimSpace
TrimSpace(t) == TrimRight(TrimLeft(t))

\* strings.Contains
Contains(t, sub) ==
  \E i \in 0..(Len(t) - Len(sub)) : SubSeq(t, i + 1, i + Len(sub)) = sub

\* strings.Fields: the maximal runs of characters that are not white space
RECURSIVE Fields(_)
Fields(t) ==
  LET u == TrimLeft(t)
  IN IF u = <<>> THEN <<>>
     ELSE LET n == CHOOSE k \in 1..Len(u) :
                     /\ \A j \in 1..k : ~IsSpace(u[j])
                     /\ k = Len(u) \/ IsSpace(u[k + 1])
          IN <<SubSeq(u, 1, n)>> \o Fields(SubSeq(u, n + 1, Len(u)))

\* strings.Join
RECURSIVE Join(_, _)
Join(parts, sep) ==
  IF parts = <<>> THEN <<>>
  ELSE IF Len(parts) = 1 THEN parts[1]
  ELSE parts[1] \o sep \o Join(Tail(parts), sep)

\* stripSystemRemindersForMode: the text from the first opening tag to the last
\* closing tag after it is removed; nothing after that closing tag can close a
\* block again (LastIndex), so the rest is kept as it is. Without a closing tag
\* after the first opening tag the text is returned whole.
stripSystemRemindersForMode(text) ==
  LET starts == {i \in 1..Len(text) : text[i] = StartTag}
  IN IF starts = {} THEN text
     ELSE LET start == CHOOSE i \in starts : \A j \in starts : i <= j
              ends == {i \in (start + 1)..Len(text) : text[i] = EndTag}
          IN IF ends = {} THEN text
             ELSE LET end == CHOOSE i \in ends : \A j \in ends : j <= i
                  IN SubSeq(text, 1, start - 1) \o SubSeq(text, end + 1, Len(text))

\* the user texts of the history, in order: string content, or the text blocks of
\* the content joined by a line feed; a message without text adds nothing
BlockTexts(blocks) ==
  LET texts == [i \in 1..Len(blocks) |->
                  TrimSpace(stripSystemRemindersForMode(blocks[i].text))]
      idx == {i \in 1..Len(blocks) : blocks[i].type = "text" /\ texts[i] # <<>>}
      RECURSIVE Collect(_)
      Collect(i) ==
        IF i > Len(blocks) THEN <<>>
        ELSE (IF i \in idx THEN <<texts[i]>> ELSE <<>>) \o Collect(i + 1)
  IN Collect(1)

RECURSIVE extractUserTexts(_)
extractUserTexts(messages) ==
  IF messages = <<>> THEN <<>>
  ELSE LET msg == Head(messages)
           text == IF msg.isString
                     THEN TrimSpace(stripSystemRemindersForMode(msg.text))
                     ELSE TrimSpace(Join(BlockTexts(msg.blocks), <<"\n">>))
       IN (IF msg.role = "user" /\ text # <<>> THEN <<text>> ELSE <<>>)
            \o extractUserTexts(Tail(messages))

\* isGreetingText, for the greetings the characters in use can spell
Greetings == {<<"h", "i">>, <<"h", "e", "y">>, <<"h", "e", "l", "l", "o">>}
isGreetingText(text) == ToLowerText(TrimSpace(text)) \in Greetings

\* normalizeTopicText: lower case, without white space and punctuation
normalizeTopicText(text) ==
  SelectSeq(ToLowerText(TrimSpace(text)), LAMBDA c : ~(IsSpace(c) \/ IsPunct(c)))

\* generateTopicTitle: the first three words, or the first ten characters of a
\* text of one word
generateTopicTitle(text) ==
  LET trimmed == TrimSpace(text)
      words == Fields(trimmed)
  IN IF trimmed = <<>> THEN <<"New Topic">>
     ELSE IF Len(words) >= 2
       THEN Join(IF Len(words) > 3 THEN SubSeq(words, 1, 3) ELSE words, <<" ">>)
     ELSE TrimSpace(IF Len(trimmed) > 10 THEN SubSeq(trimmed, 1, 10) ELSE trimmed)

TopicResult(isNewTopic, title) ==
  [done |-> TRUE, isNewTopic |-> isNewTopic, title |-> title]

classifyTopicRequest(messages) ==
  LET userTexts == extractUserTexts(messages)
      n == Len(userTexts)
      latest == TrimSpace(userTexts[n])
      prev == IF n >= 2 THEN TrimSpace(userTexts[n - 1]) ELSE <<>>
      latestNorm == normalizeTopicText(latest)
      prevNorm == normalizeTopicText(prev)
  IN IF n = 0 THEN TopicResult(FALSE, <<>>)
     ELSE IF latest = <<>> THEN TopicResult(FALSE, <<>>)
     ELSE IF prev = <<>> THEN TopicResult(TRUE, generateTopicTitle(latest))
     ELSE IF isGreetingText(latest) THEN TopicResult(FALSE, <<>>)
     ELSE IF latestNorm = <<>> \/ prevNorm = <<>>
       THEN TopicResult(latest # prev, generateTopicTitle(latest))
     ELSE IF \/ latestNorm = prevNorm
             \/ Contains(latestNorm, prevNorm)
             \/ Contains(prevNorm, latestNorm)
       THEN TopicResult(FALSE, <<>>)
     ELSE TopicResult(TRUE, generateTopicTitle(latest))

\* the contents a message of the history may have
TopicTexts ==
  { <<>>,
    <<"h", "i">>,
    <<" ", "H", "i", "\n">>,
    <<"a", "b">>,
    <<"a", "?", "b">>,
    <<"a", " ", "b">>,
    <<"b", " ", "a", " ", "b", " ", "a">>,
    <<"?">>,
    <<"?", "!">>,
    <<"b", "a", "b", "a", "b", "a", "b", "a", "b", "a", "b">>,
    <<StartTag, "a", EndTag>>,
    <<StartTag, "a", EndTag, "b">> }
TopicBlocks ==
  { << [type |-> "text", text |-> <<"a">>], [type |-> "tool_result", text |-> <<>>],
       [type |-> "text", text |-> <<"b">>] >>,
    << [type |-> "tool_result", text |-> <<>>] >> }
TopicMessages ==
  {[role |-> "user", isString |-> TRUE, text |-> t, blocks |-> <<>>] : t \in TopicTexts}
    \cup {[role |-> "user", isString |-> FALSE, text |-> <<>>, blocks |-> b] :
            b \in TopicBlocks}
    \cup {[role |-> "assistant", isString |-> TRUE, text |-> <<"a", "b">>,
           blocks |-> <<>>]}
TopicHistories == UNION {[1..n -> TopicMessages] : n \in 0..MaxHistory}

\* isNewTopic, title := classifyTopicRequest(req)
ClassifyTopicRequest ==
  /\ ~topicOut.done
  /\ topicOut' = classifyTopicRequest(topicIn)
  /\ UNCHANGED <<topicRest, topicIn>>

InitTopic ==
  /\ IdleOld
  /\ IdleSSE
  /\ IdleMem
  /\ IdleLoop
  /\ topicIn \in TopicHistories
  /\ topicOut = NoTopicResult

NextTopic == ClassifyTopicRequest

SpecTopic == InitTopic /\ [][NextTopic]_vars

\* the user texts of the request, the latest and the one before it
TopicUserTexts == extractUserTexts(topicIn)
TopicLatest == TopicUserTexts[Len(TopicUserTexts)]
TopicPrev == TopicUserTexts[Len(TopicUserTexts) - 1]

\* C31: classifyTopicRequest returns a non-empty title when it reports a new
\* topic and an empty title when it does not; a history with one user text is a
\* new topic, and a latest user text that repeats the one before it or is a
\* greeting is not
C31_TitleIffNewTopic ==
  topicOut.done =>
    /\ topicOut.isNewTopic => TrimSpace(topicOut.title) # <<>>
    /\ ~topicOut.isNewTopic => topicOut.title = <<>>
    /\ Len(TopicUserTexts) = 1 => topicOut.isNewTopic
    /\ (Len(TopicUserTexts) >= 2 /\ (TopicLatest = TopicPrev \/ isGreetingText(TopicLatest)))
         => ~topicOut.isNewTopic

\* what holds of the result: the answer for single, repeated and greeting texts,
\* the title of a new topic, and an empty title for every answer "not new" but the
\* one for two equal texts of punctuation only
TopicResultExceptPunctuation ==
  topicOut.done =>
    /\ topicOut.isNewTopic => TrimSpace(topicOut.title) # <<>>
    /\ Len(TopicUserTexts) = 1 => topicOut.isNewTopic
    /\ (Len(TopicUserTexts) >= 2 /\ (TopicLatest = TopicPrev \/ isGreetingText(TopicLatest)))
         => ~topicOut.isNewTopic
    /\ (~topicOut.isNewTopic /\ topicOut.title # <<>>) =>
         /\ Len(TopicUserTexts) >= 2
         /\ TopicLatest = TopicPrev
         /\ normalizeTopicText(TopicLatest) = <<>>

\* ------------------------------------------------------ one-shot tool calls
\* the model.tool-call event for tool id t is handled in this step
ToolCallArrives(t) == t \notin upCalled /\ t \in upCalled'

\* no tool call comes out of the step
NoToolCallMade ==
  UNCHANGED <<toolCallHandled, pendingToolCalls, internalToolResults, contentBlocks,
              toolCallCount, outq>>

\* C32: a tool-call event for an id without a tool-input-start before it is
\* accepted as a one-shot tool call whatever other ids are being streamed, and a
\* tool-call event for an id that still has tool-input state or was handled
\* already produces no tool call
C32_OneShotAcceptedElseSuppressed ==
  [][\A t \in ToolIds :
       ToolCallArrives(t) =>
         /\ (t \notin upOpened /\ t \in seenToolIds') =>
              (t \notin toolCallHandled /\ t \in toolCallHandled')
         /\ (t \in DOMAIN toolInputBuffers \/ t \in toolCallHandled) => NoToolCallMade]_vars

\* the same, with the one-shot call accepted only while no other tool id has
\* its input open
OneShotAcceptedUnlessOtherStreaming ==
  [][\A t \in ToolIds :
       ToolCallArrives(t) =>
         /\ (t \notin upOpened /\ t \in seenToolIds' /\ currentToolInputID = "") =>
              (t \notin toolCallHandled /\ t \in toolCallHandled')
         /\ (t \notin upOpened /\ currentToolInputID # "") => NoToolCallMade
         /\ (t \in DOMAIN toolInputBuffers \/ t \in toolCallHandled) => NoToolCallMade]_vars

\* ------------------------------------------------- replay on another account
\* the state resetRoundState leaves behind
RoundStateReset ==
  /\ blockIndex = -1
  /\ toolBlocks = EmptyMap
  /\ responseText = 0
  /\ contentBlocks = <<>>
  /\ currentTextIndex = -1
  /\ textBlockBuilders = EmptyMap
  /\ pendingToolCalls = <<>>
  /\ toolInputNames = EmptyMap
  /\ toolInputBuffers = EmptyMap
  /\ toolInputHadDelta = EmptyMap
  /\ toolCallHandled = {}
  /\ currentToolInputID = ""
  /\ toolCallCount = 0
  /\ outputTokens = 0
  /\ outputBuilder = 0
  /\ useUpstreamUsage = FALSE
  /\ finalStopReason = ""

\* the step that calls SendRequest again after an attempt of the round failed
ReplayStarts ==
  /\ pc \in {"send", "backoff"}
  /\ pc' = "send"
  /\ attempts' = attempts + 1

\* C33: when an attempt fails and the request is replayed on another account,
\* the state of the round (block index, tool buffers and id maps, pending tool
\* calls, token tallies) is reset before the replay
C33_RoundStateResetBeforeReplay ==
  [][ReplayStarts => RoundStateReset']_vars

\* the replay starts from the state the failed attempt left behind
RoundStateKeptOnReplay ==
  [][ReplayStarts =>
       UNCHANGED <<blockIndex, toolVars, textVars, tokVars, pendingToolCalls,
                   contentBlocks, toolCallCount, finalStopReason>>]_vars

\* -------------------------------------------------- local execution in auto mode
\* a tool call is executed by the gateway in this step
ExecutedLocally == Len(internalToolResults') > Len(internalToolResults)

\* C34: in auto mode a tool call is executed locally only after the round has
\* finished with finish reason tool-calls, and in a round that finishes with
\* another reason no tool is executed locally
C34_AutoExecutesOnlyAfterToolCallsFinish ==
  [][toolCallMode = "auto" =>
       /\ ExecutedLocally => roundFinish = "tool-calls"
       /\ roundFinish' \notin {"", "tool-calls"} => internalToolResults' = <<>>]_vars

\* in auto mode every tool call the handler accepts is executed in the step of
\* the event that completes it, whatever the round has finished with or will
\* finish with
AutoExecutesOnAcceptance ==
  [][toolCallMode = "auto" =>
       ((toolCallHandled \subseteq toolCallHandled' /\ toolCallHandled' # toolCallHandled)
          <=> ExecutedLocally)]_vars

\* ------------------------------------------------------ upstream dispatcher
\* the lines of a response body: a data line whose payload is a JSON object of
\* type "model" or of another type, a data line whose payload is no JSON object,
\* a line without the prefix "data: ", and the blank line that ends an event
SSELine(prefix, parses, type) == [prefix |-> prefix, parses |-> parses, type |-> type]
BlankLine == SSELine("", FALSE, "")
SSELines ==
  { SSELine("data: ", TRUE, "model"),
    SSELine("data: ", TRUE, "ping"),
    SSELine("data: ", FALSE, ""),
    SSELine("event: ", FALSE, ""),
    BlankLine }
SSEStreams == UNION {[1..n -> SSELines] : n \in 0..MaxLines}

\* strings.HasPrefix(l, "data: "), json.Unmarshal into a map, msg["type"]
HasDataPrefix(l) == l.prefix = "data: "
UnmarshalOk(l) == l.parses
MsgType(l) == IF l.parses THEN l.type ELSE ""

\* the loop over the lines of one event: the lines onMessage is called for
DispatchAnyType(stream, buffer) ==
  SelectSeq(buffer, LAMBDA i : HasDataPrefix(stream[i]) /\ UnmarshalOk(stream[i]))

Dispatch(stream, buffer) ==
  SelectSeq(buffer, LAMBDA i : /\ HasDataPrefix(stream[i])
                               /\ UnmarshalOk(stream[i])
                               /\ MsgType(stream[i]) = "model")

\* reader.ReadString('\n') returns a whole line
SSEReadLine ==
  /\ sseRet = ""
  /\ ssePos <= Len(sseStream)
  /\ ssePos < Len(sseStream) \/ sseTerminated
  /\ ssePos' = ssePos + 1
  /\ IF sseStream[ssePos] = BlankLine
       THEN /\ sseDelivered' = sseDelivered \o Dispatch(sseStream, Append(sseBuffer, ssePos))
            /\ sseBuffer' = <<>>
       ELSE /\ sseBuffer' = Append(sseBuffer, ssePos)
            /\ UNCHANGED sseDelivered
  /\ UNCHANGED <<sseRest, sseStream, sseTerminated, sseRet>>

\* reader.ReadString returns io.EOF, with or without the rest of a line that has
\* no line feed: break, return nil
SSEReadEOF ==
  /\ sseRet = ""
  /\ ssePos > Len(sseStream) \/ (ssePos = Len(sseStream) /\ ~sseTerminated)
  /\ ssePos' = Len(sseStream) + 1
  /\ sseRet' = "nil"
  /\ UNCHANGED <<sseRest, sseStream, sseTerminated, sseBuffer, sseDelivered>>

\* reader.ReadString returns another error
SSEReadError ==
  /\ sseRet = ""
  /\ sseRet' = "error"
  /\ UNCHANGED <<sseRest, sseStream, sseTerminated, ssePos, sseBuffer, sseDelivered>>

\* case <-ctx.Done(): return ctx.Err()
SSECtxDone ==
  /\ sseRet = ""
  /\ sseRet' = "canceled"
  /\ UNCHANGED <<sseRest, sseStream, sseTerminated, ssePos, sseBuffer, sseDelivered>>

InitSSE ==
  /\ IdleOld
  /\ IdleTopic
  /\ IdleMem
  /\ IdleLoop
  /\ sseStream \in SSEStreams
  /\ sseTerminated \in BOOLEAN
  /\ sseTerminated \/ (sseStream # <<>> /\ sseStream[Len(sseStream)] # BlankLine)
  /\ ssePos = 1
  /\ sseBuffer = <<>>
  /\ sseDelivered = <<>>
  /\ sseRet = ""

NextSSE ==
  \/ SSEReadLine
  \/ SSEReadEOF
  \/ SSEReadError
  \/ SSECtxDone

SpecSSE == InitSSE /\ [][NextSSE]_vars

IsModelLine(i) ==
  /\ sseStream[i].prefix = "data: "
  /\ sseStream[i].parses
  /\ sseStream[i].type = "model"
\* the lines that are part of an event: a blank line that was read follows them
InEvent(i) == \E b \in (i + 1)..(ssePos - 1) : b <= Len(sseStream) /\ sseStream[b] = BlankLine /\
                                                (b < Len(sseStream) \/ sseTerminated)
Increasing(q) == \A j, k \in 1..Len(q) : j < k => q[j] < q[k]
DeliveredSet == {sseDelivered[k] : k \in 1..Len(sseDelivered)}

\* C35 as stated: when the stream has been read to its end, on_event has been
\* invoked exactly once for every data line that parses with type "model", in
\* stream order, and for no other line
C35_EveryModelLineDispatched ==
  sseRet = "nil" =>
    /\ Increasing(sseDelivered)
    /\ DeliveredSet = {i \in 1..Len(sseStream) : IsModelLine(i)}

\* C35, amended: at every point on_event has been invoked exactly once, in
\* stream order, for the model lines of the events whose closing blank line was
\* read, and for no other line; the stream is given up only at its end, on a
\* read error or on cancellation
C35_ModelLinesOfClosedEventsDispatched ==
  /\ Increasing(sseDelivered)
  /\ DeliveredSet = {i \in 1..Len(sseStream) : IsModelLine(i) /\ InEvent(i)}
  /\ sseRet = "nil" => ssePos = Len(sseStream) + 1
  /\ sseRet = "" => ssePos <= Len(sseStream) + 1

\* the stream was read to its end, and a model line was dispatched after a data
\* line that does not parse and after one of another type
C35_Witness ==
  /\ sseRet = "nil"
  /\ \E k \in 1..Len(sseDelivered), i, j \in 1..Len(sseStream) :
       /\ i < sseDelivered[k]
       /\ j < sseDelivered[k]
       /\ HasDataPrefix(sseStream[i]) /\ ~UnmarshalOk(sseStream[i])
       /\ HasDataPrefix(sseStream[j]) /\ MsgType(sseStream[j]) = "ping"

\* ------------------------------------------------------- token-count cache
MemKeys == {"a", "bb", "ccc"}
KeyLen(key) == CASE key = "a" -> 1 [] key = "bb" -> 2 [] key = "ccc" -> 3 [] OTHER -> 0
MemTTLs == -1..MaxMemTTL
MemMaxEntries == -1..MaxMemEntries

\* NewMemoryCache: a negative ttl is 0, a maxEntries that is not positive is 0
NewMemoryCache(ttl, maxEntries) ==
  [ttl |-> IF ttl < 0 THEN 0 ELSE ttl,
   maxEntries |-> IF maxEntries > 0 THEN maxEntries ELSE 0]

\* time.Time.Before and time.Time.After; the zero time is before every other
Before(a, b) == IF a.zero THEN ~b.zero ELSE ~b.zero /\ a.t < b.t
After(now, t) == t.zero \/ now > t.t

\* c.ttl > 0 && !item.expiresAt.IsZero() && time.Now().After(item.expiresAt)
ItemExpired(ttl, item, now) == ttl > 0 /\ ~item.expiresAt.zero /\ After(now, item.expiresAt)

RECURSIVE SumSizes(_, _)
SumSizes(items, keys) ==
  IF keys = {} THEN 0
  ELSE LET k == CHOOSE x \in keys : TRUE
       IN items[k].size + SumSizes(items, keys \ {k})

\* evictOldestLocked: the loop keeps the first item it meets among those with the
\* earliest expiresAt, and the order of a map range is arbitrary
OldestKeys(items) ==
  {k \in DOMAIN items :
     \A j \in DOMAIN items : ~Before(items[j].expiresAt, items[k].expiresAt)}
evictOldestLocked(c, oldestKey) ==
  [items |-> MapDel(c.items, oldestKey),
   sizeBytes |-> c.sizeBytes - c.items[oldestKey].size]

\* pruneExpiredLocked
pruneExpiredLocked(c, ttl, now) ==
  LET gone == {k \in DOMAIN c.items :
                 ~c.items[k].expiresAt.zero /\ After(now, c.items[k].expiresAt)}
  IN IF ttl <= 0 THEN c
     ELSE [items |-> [k \in (DOMAIN c.items) \ gone |-> c.items[k]],
           sizeBytes |-> c.sizeBytes - SumSizes(c.items, gone)]

\* the locked part of Put: items, sizeBytes and what was done
PutLockedNoSubtract(c, maxEntries, key, item, oldestKey) ==
  LET c1 == IF key \notin DOMAIN c.items /\ maxEntries > 0
                 /\ Cardinality(DOMAIN c.items) >= maxEntries
              THEN evictOldestLocked(c, oldestKey) ELSE c
  IN [items |-> MapPut(c1.items, key, item),
      sizeBytes |-> c1.sizeBytes + item.size,
      last |-> IF key \in DOMAIN c.items THEN "replace"
               ELSE IF c1 # c THEN "evict" ELSE "insert"]

PutLocked(c, maxEntries, key, item, oldestKey) ==
  LET c1 == IF key \in DOMAIN c.items
              THEN [c EXCEPT !.sizeBytes = @ - c.items[key].size]
            ELSE IF maxEntries > 0 /\ Cardinality(DOMAIN c.items) >= maxEntries
              THEN evictOldestLocked(c, oldestKey)
            ELSE c
  IN [items |-> MapPut(c1.items, key, item),
      sizeBytes |-> c1.sizeBytes + item.size,
      last |-> IF key \in DOMAIN c.items THEN "replace"
               ELSE IF c1 # c THEN "evict" ELSE "insert"]

MemCache == [items |-> memItems, sizeBytes |-> memSizeBytes]
SetMemCache(c) ==
  /\ memItems' = c.items
  /\ memSizeBytes' = c.sizeBytes

\* SetTTL
MemSetTTL(ttl) ==
  LET t == IF ttl < 0 THEN 0 ELSE ttl
  IN /\ memTTL' = t
     /\ IF memTTL # t
          THEN SetMemCache([items |-> EmptyMap, sizeBytes |-> 0])
          ELSE UNCHANGED <<memItems, memSizeBytes>>
     /\ UNCHANGED <<memRest, memMaxEntries, memNow, memGet, memPut>>

\* Get, under the read lock: a miss, a hit, or an expired item that is left to
\* the second half
MemGetRead(key) ==
  /\ memGet.pc = "idle"
  /\ memGet' = IF key \in DOMAIN memItems /\ ItemExpired(memTTL, memItems[key], memNow)
                 THEN [pc |-> "evict", key |-> key]
                 ELSE NoMemGet
  /\ UNCHANGED <<memRest, memTTL, memMaxEntries, memItems, memSizeBytes, memNow, memPut>>

\* Get, under the write lock: the item is looked up and tested again
MemGetEvict ==
  /\ memGet.pc = "evict"
  /\ IF memGet.key \in DOMAIN memItems
          /\ ItemExpired(memTTL, memItems[memGet.key], memNow)
       THEN SetMemCache([items |-> MapDel(memItems, memGet.key),
                         sizeBytes |-> memSizeBytes - memItems[memGet.key].size])
       ELSE UNCHANGED <<memItems, memSizeBytes>>
  /\ memGet' = NoMemGet
  /\ UNCHANGED <<memRest, memTTL, memMaxEntries, memNow, memPut>>

\* Put, before the lock: expiresAt from c.ttl as it is read now
MemPutBegin(key) ==
  /\ memPut.pc = "idle"
  /\ memPut' = [pc |-> "store", key |-> key,
                expiresAt |-> IF memTTL > 0 THEN TimeAt(memNow + memTTL) ELSE ZeroTime,
                last |-> memPut.last]
  /\ UNCHANGED <<memRest, memTTL, memMaxEntries, memItems, memSizeBytes, memNow, memGet>>

\* Put, under the lock
MemPutStore ==
  /\ memPut.pc = "store"
  /\ \E tokens \in {1}, oldestKey \in (IF memItems = EmptyMap THEN {""}
                                       ELSE OldestKeys(memItems)) :
       LET item == [tokens |-> tokens, expiresAt |-> memPut.expiresAt,
                    size |-> KeyLen(memPut.key) + 8]
           c == PutLocked(MemCache, memMaxEntries, memPut.key, item, oldestKey)
       IN /\ SetMemCache(c)
          /\ memPut' = [NoMemPut EXCEPT !.last = c.last]
  /\ UNCHANGED <<memRest, memTTL, memMaxEntries, memNow, memGet>>

\* GetStats: prune, then count and size
MemGetStats ==
  /\ SetMemCache(pruneExpiredLocked(MemCache, memTTL, memNow))
  /\ UNCHANGED <<memRest, memTTL, memMaxEntries, memNow, memGet, memPut>>

\* Clear
MemClear ==
  /\ memItems # EmptyMap
  /\ SetMemCache([items |-> EmptyMap, sizeBytes |-> 0])
  /\ UNCHANGED <<memRest, memTTL, memMaxEntries, memNow, memGet, memPut>>

MemTick ==
  /\ memNow < MaxMemClock
  /\ memNow' = memNow + 1
  /\ UNCHANGED <<memRest, memTTL, memMaxEntries, memItems, memSizeBytes, memGet, memPut>>

InitMem ==
  /\ IdleOld
  /\ IdleTopic
  /\ IdleSSE
  /\ IdleLoop
  /\ \E ttl \in MemTTLs, maxEntries \in MemMaxEntries :
       /\ memTTL = NewMemoryCache(ttl, maxEntries).ttl
       /\ memMaxEntries = NewMemoryCache(ttl, maxEntries).maxEntries
  /\ memItems = EmptyMap
  /\ memSizeBytes = 0
  /\ memNow = 0
  /\ memGet = NoMemGet
  /\ memPut = NoMemPut

NextMem ==
  \/ \E ttl \in MemTTLs : MemSetTTL(ttl)
  \/ \E key \in MemKeys : MemGetRead(key)
  \/ MemGetEvict
  \/ \E key \in MemKeys : MemPutBegin(key)
  \/ MemPutStore
  \/ MemGetStats
  \/ MemClear
  \/ MemTick

SpecMem == InitMem /\ [][NextMem]_vars

\* C40: after any sequence of Put, Get, SetTTL, Clear and GetStats operations
\* sizeBytes is the sum of the sizes of the stored items and, when maxEntries > 0,
\* there are at most maxEntries stored items
C40_SizeBytesAndEntryBound ==
  /\ memSizeBytes = SumSizes(memItems, DOMAIN memItems)
  /\ memMaxEntries > 0 => Cardinality(DOMAIN memItems) <= memMaxEntries

\* a Put into a full cache has just evicted the oldest item, the cache holds
\* maxEntries items of different sizes, and the clock has moved
C40_Witness ==
  /\ memPut.last = "evict"
  /\ memMaxEntries = 2
  /\ Cardinality(DOMAIN memItems) = 2
  /\ memSizeBytes = 21
  /\ memNow > 0

\* ------------------------------------------------- the limiter's active counter
\* requests between cl.sem.Release(1) and the decrement of cl.activeCount
Leaving == {r \in Requests : req[r].pc = "decrement"}

\* C37 as stated: the active counter that Stats reports never exceeds the
\* concurrency limit, for any interleaving of requests that enter and leave the
\* limiter
C37_ActiveCountWithinLimit ==
  activeCount <= maxConcurrent

\* C37, amended: the active counter never exceeds the concurrency limit by more
\* than the number of requests that have given their slot back and not yet
\* decremented the counter, and it is never negative
C37_ActiveCountWithinLimitPlusLeaving ==
  /\ activeCount <= maxConcurrent + Cardinality(Leaving)
  /\ activeCount >= 0

\* the counter is above the limit: a handler runs in the slot that a request,
\* which has not decremented the counter yet, gave back
C37_Witness ==
  /\ activeCount = maxConcurrent + 1
  /\ Leaving # {}
  /\ \E r \in Requests : req[r].pc = "serving"

\* ------------------------------------------- the limiter's timeout and the handler
\* C38: the concurrency timeout bounds only the wait for a slot: once a handler
\* has been admitted, the expiry of the timeout never cancels the context of the
\* request under which the handler and its upstream calls run
C38_TimeoutNeverCancelsAdmitted ==
  \A r \in Requests : req[r].pc = "serving" => ~req[r].ctxDone

\* the context a handler runs under is cancelled by nothing but the timer of
\* the limiter, and the request still gives its slot back once
TimeoutCancelsOnlyWhileAdmitted ==
  \A r \in Requests :
    /\ req[r].ctxDone => req[r].pc \in {"acquired", "serving", "release", "decrement", "done"}
    /\ (req[r].ctxDone /\ req[r].pc = "done") => (req[r].invoked = 1 /\ req[r].released = 1)

\* ------------------------------------------- lookups and stores of one session
\* goroutine g ends its lookup as a miss in this step, after the clock test
LookupEvicts(g) == tokenCall[g].pc = "check" /\ tokenCall'[g].pc = "miss"

\* the entry of the session has not expired
FreshToken(sid) ==
  tokenCacheItems[sid].present /\ tokenNow <= tokenCacheItems[sid].expiresAt

\* C39: a lookup that finds an expired entry never removes a fresher token that
\* a concurrent store has put in for the same session id, for any interleaving
\* of the lookup's read, its eviction and the store
C39_LookupKeepsFresherToken ==
  [][\A g \in TokenCallers, sid \in SessionIDs :
       (LookupEvicts(g) /\ FreshToken(sid)) =>
         tokenCacheItems'[sid] = tokenCacheItems[sid]]_vars

\* the eviction removes the entry the session has at that moment, whether it is
\* the one the lookup read or not, and no entry of another session
LookupEvictsOwnSessionOnly ==
  [][\A g \in TokenCallers, sid \in SessionIDs :
       LookupEvicts(g) =>
         /\ ~tokenCacheItems'[tokenCall[g].sessionID].present
         /\ sid # tokenCall[g].sessionID => tokenCacheItems'[sid] = tokenCacheItems[sid]
         /\ (FreshToken(sid) /\ tokenCacheItems[sid] = tokenCall[g].entry) =>
              tokenCacheItems'[sid] = tokenCacheItems[sid]]_vars

\* ------------------------------------------------ the round loop, by itself
\* The goroutine that HandleMessages starts and waits for: what decides whether
\* it runs another round.  The blocks, the frames and the history a round
\* produces are left to the handler's model above; here are only the locals
\* the loop's conditions read.
LoopModes == ToolCallModes \cup {"internal"}
ExecutesLocally(mode) == mode \in {"internal", "auto"}

\* SendRequest delivers the next event of the call: the call goes on, it has
\* events left, and the request's context is not done
LoopEvGuard ==
  /\ loopPc = "send"
  /\ ~loopCtxErr
  /\ loopEvents < MaxCallEvents

\* internalNeedsFollowup = false ... retriesRemaining := maxRetries
LoopStartRound ==
  /\ loopPc = "start"
  /\ loopNeedsFollowup' = FALSE
  /\ loopResults' = 0
  /\ loopRetriesRemaining' = IF loopMaxRetries < 0 THEN 0 ELSE loopMaxRetries
  /\ loopEvents' = 0
  /\ loopPc' = "send"
  /\ UNCHANGED <<loopRest, loopMode, loopMaxRetries, loopHasReturn, loopCtxErr>>

\* a model.tool-call event that reaches handleToolCall with a tool id
LoopToolCall ==
  /\ LoopEvGuard
  /\ loopEvents' = loopEvents + 1
  /\ loopResults' = IF ~loopHasReturn /\ ExecutesLocally(loopMode)
                      THEN loopResults + 1 ELSE loopResults
  /\ UNCHANGED <<loopRest, loopMode, loopMaxRetries, loopPc, loopRetriesRemaining,
                 loopNeedsFollowup, loopHasReturn, loopCtxErr>>

\* a model.finish event
LoopFinish(finishReason) ==
  /\ LoopEvGuard
  /\ loopEvents' = loopEvents + 1
  /\ IF loopHasReturn
       THEN UNCHANGED <<loopNeedsFollowup, loopHasReturn>>
       ELSE IF finishReason = "tool-calls" /\ ExecutesLocally(loopMode)
         THEN /\ loopNeedsFollowup' = IF loopResults > 0 THEN TRUE ELSE loopNeedsFollowup
              /\ UNCHANGED loopHasReturn
         ELSE /\ loopHasReturn' = TRUE
              /\ UNCHANGED loopNeedsFollowup
  /\ UNCHANGED <<loopRest, loopMode, loopMaxRetries, loopPc, loopRetriesRemaining,
                 loopResults, loopCtxErr>>

LoopOnFinish == \E finishReason \in FinishReasons : LoopFinish(finishReason)

\* any other event: it changes no local the loop reads
LoopOtherEvent ==
  /\ LoopEvGuard
  /\ loopEvents' = loopEvents + 1
  /\ UNCHANGED <<loopRest, loopMode, loopMaxRetries, loopPc, loopRetriesRemaining,
                 loopResults, loopNeedsFollowup, loopHasReturn, loopCtxErr>>

\* SendRequest returns nil
LoopSendOk ==
  /\ loopPc = "send"
  /\ ~loopCtxErr
  /\ loopPc' = IF ExecutesLocally(loopMode) /\ loopNeedsFollowup
                 THEN "followup" ELSE "exited"
  /\ UNCHANGED <<loopRest, loopMode, loopMaxRetries, loopRetriesRemaining, loopResults,
                 loopNeedsFollowup, loopHasReturn, loopCtxErr, loopEvents>>

\* the follow-up appends the tool results to the history, resetRoundState, continue
LoopFollowup ==
  /\ loopPc = "followup"
  /\ loopPc' = "start"
  /\ UNCHANGED <<loopRest, loopMode, loopMaxRetries, loopRetriesRemaining, loopResults,
                 loopNeedsFollowup, loopHasReturn, loopCtxErr, loopEvents>>

\* SendRequest returns an error; selectOk is the outcome of selectAccount
LoopSendErr ==
  /\ loopPc = "send"
  /\ \E selectOk \in BOOLEAN :
       IF loopCtxErr \/ loopRetriesRemaining <= 0
         THEN /\ loopHasReturn' = TRUE
              /\ loopPc' = "exited"
              /\ UNCHANGED loopRetriesRemaining
         ELSE /\ loopRetriesRemaining' = loopRetriesRemaining - 1
              /\ IF selectOk
                   THEN /\ loopPc' = "backoff"
                        /\ UNCHANGED loopHasReturn
                   ELSE /\ loopHasReturn' = TRUE
                        /\ loopPc' = "exited"
  /\ UNCHANGED <<loopRest, loopMode, loopMaxRetries, loopResults, loopNeedsFollowup,
                 loopCtxErr, loopEvents>>

\* the select on time.After(retryDelay) and r.Context().Done(), then the next call
LoopBackoff ==
  /\ loopPc = "backoff"
  /\ IF loopCtxErr
       THEN /\ loopHasReturn' = TRUE
            /\ loopPc' = "exited"
            /\ UNCHANGED loopEvents
       ELSE /\ loopPc' = "send"
            /\ loopEvents' = 0
            /\ UNCHANGED loopHasReturn
  /\ UNCHANGED <<loopRest, loopMode, loopMaxRetries, loopRetriesRemaining, loopResults,
                 loopNeedsFollowup, loopCtxErr>>

\* the client goes away
LoopCancel ==
  /\ loopPc \in {"send", "backoff"}
  /\ ~loopCtxErr
  /\ loopCtxErr' = TRUE
  /\ UNCHANGED <<loopRest, loopMode, loopMaxRetries, loopPc, loopRetriesRemaining,
                 loopResults, loopNeedsFollowup, loopHasReturn, loopEvents>>

\* <-done, then if !hasReturn { finishResponse("end_turn") }
LoopMainAfterDone ==
  /\ loopPc = "exited"
  /\ loopHasReturn' = TRUE
  /\ loopPc' = "finalized"
  /\ UNCHANGED <<loopRest, loopMode, loopMaxRetries, loopRetriesRemaining, loopResults,
                 loopNeedsFollowup, loopCtxErr, loopEvents>>

InitLoop ==
  /\ IdleOld
  /\ IdleTopic
  /\ IdleSSE
  /\ IdleMem
  /\ loopMode \in LoopModes
  /\ loopMaxRetries \in -1..MaxLoopRetries
  /\ loopPc = "start"
  /\ loopRetriesRemaining = 0
  /\ loopResults = 0
  /\ loopNeedsFollowup = FALSE
  /\ loopHasReturn = FALSE
  /\ loopCtxErr = FALSE
  /\ loopEvents = 0

\* what the goroutines do by themselves
LoopStep ==
  \/ LoopStartRound
  \/ LoopFollowup
  \/ LoopBackoff
  \/ LoopMainAfterDone

\* an upstream call returns
LoopReturn ==
  \/ LoopSendOk
  \/ LoopSendErr

NextLoop ==
  \/ LoopStartRound
  \/ LoopToolCall
  \/ LoopOnFinish
  \/ LoopOtherEvent
  \/ LoopSendOk
  \/ LoopFollowup
  \/ LoopSendErr
  \/ LoopBackoff
  \/ LoopCancel
  \/ LoopMainAfterDone

\* a goroutine that can run does run, and every upstream call returns; nothing
\* is assumed about which events a call delivers or how it returns
SpecLoop == InitLoop /\ [][NextLoop]_vars /\ WF_vars(LoopStep) /\ WF_vars(LoopReturn)

\* C36: provided every upstream call returns, HandleMessages terminates and
\* finalizes the response: the rounds of one request are finite for every
\* upstream behaviour
C36_HandleMessagesTerminates == <>(loopPc = "finalized" /\ loopHasReturn)

\* the request terminates and is finalized unless the follow-up of locally
\* executed tool calls starts a new round again and again
TerminatesUnlessFollowupRepeats ==
  <>(loopPc = "finalized" /\ loopHasReturn) \/ []<>(loopPc = "followup")

\* the retries of one round are bounded by max_retries
LoopRetriesWithinMax ==
  /\ loopRetriesRemaining >= 0
  /\ loopRetriesRemaining <= (IF loopMaxRetries < 0 THEN 0 ELSE loopMaxRetries)
====
